---------------------------- MODULE Spec2Model ----------------------------
(***************************************************************************)
(* A model of the etnaviv NIR compiler backend                             *)
(* (src/gallium/drivers/etnaviv/etnaviv_compiler_nir.c): the instruction   *)
(* emitter callbacks and the tail of etna_compile_shader_nir, the          *)
(* cross-stage linker etna_link_shader_nir and the fixed-point optimizer   *)
(* driver etna_optimize_loop.                                              *)
(*                                                                         *)
(* C arrays are 0-based; the instruction buffer is the sequence `code`,    *)
(* so c->code[i] is code[i + 1].  assert() is compiled in or out by the    *)
(* build: `ndebug` is the build's choice, fixed in the initial state.      *)
(***************************************************************************)
EXTENDS Integers, Sequences, FiniteSets, TLC

VARIABLES
  ndebug,       \* TRUE: the build defines NDEBUG, assert() expands to nothing
  pc,           \* position of the operation being modelled
  stage,        \* s->info.stage: "VS" or "FS"
  specs,        \* c->specs, the hardware capability record
  num_blocks,   \* nir_shader_get_entrypoint(s)->num_blocks
  block_ptr,    \* c->block_ptr: block # -> instruction index
  inst_ptr,     \* c->inst_ptr
  code,         \* c->code[0 .. ), the entries written so far
  output_reg,   \* c->output_reg, indexed by driver_location
  written,      \* history: per index, the register of the latest etna_emit_output call
  error,        \* c->error
  cur,          \* number of blocks the emitter has started
  owner,        \* history: owner[i] is the block that emitted code[i]
  sym,          \* history: sym[i] is code[i] as it was appended
  outputs,      \* s->outputs, the output variables in list order
  v,            \* the shader variant being filled in
  ret,          \* what the call returned: "none" until it returns
  vs, fs,       \* the two variants handed to etna_link_shader_nir
  info,         \* struct etna_shader_link_info
  idx,          \* loop index of etna_link_shader_nir
  comp_ofs,     \* running component offset of etna_link_shader_nir
  progress,     \* etna_optimize_loop: the do-while's progress flag
  pass,         \* etna_optimize_loop: index of the next pass of the sweep
  budget,       \* how many more times the external passes can report progress
  sweeps,       \* history: number of sweeps finished
  invoked,      \* history: the passes invoked in the current sweep, in order
  reported,     \* history: the passes that reported progress in the current sweep
  nir,          \* v->shader->nir, the IR handed to the compile
  c_nir,        \* c->nir, the clone the compile rewrites
  key,          \* v->key, the specialization key
  step,         \* number of front-end calls of etna_compile_shader_nir done
  arg,          \* the arguments of the function applied on its own
  res           \* what that function produced

vars == <<ndebug, pc, stage, specs, num_blocks, block_ptr, inst_ptr, code,
          output_reg, written, error, cur, owner, sym, outputs, v, ret,
          vs, fs, info, idx, comp_ofs, progress, pass, budget, sweeps, invoked, reported,
          nir, c_nir, key, step, arg, res>>

compileVars == <<stage, specs, num_blocks, block_ptr, inst_ptr, code,
                 output_reg, written, error, cur, owner, sym, outputs, v>>
linkVars == <<vs, fs, info, idx, comp_ofs>>
optVars == <<progress, pass, budget, sweeps, invoked, reported>>
frontVars == <<nir, c_nir, key, step>>
fnVars == <<arg, res>>

(***************************************************************************)
(* Bounds of the model.                                                    *)
(***************************************************************************)
MaxInsts == 2        \* instructions the emitter appends in one compile
MaxBlocks == 2       \* basic blocks of the entry point

Max(a, b) == IF a >= b THEN a ELSE b
SetMin(S) == CHOOSE x \in S : \A y \in S : x <= y
Min(a, b) == IF a <= b THEN a ELSE b

(***************************************************************************)
(* Hardware instructions.  A zero-initialised struct etna_inst has opcode  *)
(* 0 (NOP), type 0 (F32), condition 0 (TRUE) and unused operands.          *)
(***************************************************************************)
INST_OPCODE_NOP == "NOP"
INST_OPCODE_BRANCH == "BRANCH"
INST_OPCODE_TEXKILL == "TEXKILL"
INST_OPCODE_LOAD == "LOAD"
OPCODE_SENTINEL == "0xff"

ZeroSrc == [use |-> FALSE, reg |-> 0, swiz |-> 0]
ZeroDst == [use |-> FALSE, reg |-> 0, write_mask |-> 0]
ZeroTex == [id |-> 0, amode |-> 0, swiz |-> 0]
ZeroInst == [opcode |-> INST_OPCODE_NOP, type |-> "F32", cond |-> "TRUE",
             sat |-> FALSE, dst |-> ZeroDst,
             src |-> <<ZeroSrc, ZeroSrc, ZeroSrc>>,
             imm |-> 0, tex |-> ZeroTex, halti5 |-> FALSE]

\* A swizzle is four 2-bit lanes packed into a byte, lane 0 lowest.
SwizLane(swiz, l) == (swiz \div (4 ^ l)) % 4
INST_SWIZ(x, y, z, w) == (x % 4) + 4 * (y % 4) + 16 * (z % 4) + 64 * (w % 4)
INST_SWIZ_BROADCAST(x) == INST_SWIZ(x, x, x, x)
INST_SWIZ_IDENTITY == INST_SWIZ(0, 1, 2, 3)
inst_swiz_compose(swz1, swz2) ==
  INST_SWIZ(SwizLane(swz1, SwizLane(swz2, 0)), SwizLane(swz1, SwizLane(swz2, 1)),
            SwizLane(swz1, SwizLane(swz2, 2)), SwizLane(swz1, SwizLane(swz2, 3)))

\* ffs(): 1 + index of the lowest set bit, 0 for 0.
RECURSIVE ffs(_)
ffs(m) == IF m = 0 THEN 0 ELSE IF m % 2 = 1 THEN 1 ELSE 1 + ffs(m \div 2)


(***************************************************************************)
(* The op descriptor table etna_ops.  Every entry starts as the sentinel   *)
(* {0xff} (all other fields zero); the listed opcodes are overwritten.     *)
(***************************************************************************)
SRC_0_1_2 == 0 + 1 * 4 + 2 * 16
SRC_0_1_X == 0 + 1 * 4 + 3 * 16
SRC_0_X_X == 0 + 3 * 4 + 3 * 16
SRC_0_X_1 == 0 + 3 * 4 + 1 * 16
SRC_0_1_0 == 0 + 1 * 4 + 0 * 16
SRC_X_X_0 == 3 + 3 * 4 + 0 * 16
SRC_0_X_0 == 0 + 3 * 4 + 0 * 16

OPCT(op, src, cond, type) == [opcode |-> op, src |-> src, cond |-> cond, type |-> type]
OPC(op, src, cond) == OPCT(op, src, cond, "F32")
OP(op, src) == OPC(op, src, "TRUE")

\* nir opcodes with a descriptor
DescribedOps ==
  {"mov", "fneg", "fabs", "fsat", "fmul", "fadd", "ffma", "fdot2", "fdot3",
   "fdot4", "fmin", "fmax", "ffract", "frcp", "frsq", "fsqrt", "fsin", "fcos",
   "fsign", "ffloor", "fceil", "flog2", "fexp2", "seq", "sne", "sge", "slt",
   "fcsel", "fdiv", "fddx", "fddy", "i2f32", "f2u32"}
\* some of the nir opcodes the table leaves at the sentinel
UndescribedOps == {"iadd", "fpow"}
NirOps == DescribedOps \cup UndescribedOps

SentinelOp == [opcode |-> OPCODE_SENTINEL, src |-> 0, cond |-> "TRUE", type |-> "F32"]

etna_ops(op) ==
  CASE op \in {"mov", "fneg", "fabs", "fsat"} -> OP("MOV", SRC_X_X_0)
    [] op = "fmul" -> OP("MUL", SRC_0_1_X)
    [] op = "fadd" -> OP("ADD", SRC_0_X_1)
    [] op = "ffma" -> OP("MAD", SRC_0_1_2)
    [] op = "fdot2" -> OP("DP2", SRC_0_1_X)
    [] op = "fdot3" -> OP("DP3", SRC_0_1_X)
    [] op = "fdot4" -> OP("DP4", SRC_0_1_X)
    [] op = "fmin" -> OPC("SELECT", SRC_0_1_0, "GT")
    [] op = "fmax" -> OPC("SELECT", SRC_0_1_0, "LT")
    [] op = "ffract" -> OP("FRC", SRC_X_X_0)
    [] op = "frcp" -> OP("RCP", SRC_X_X_0)
    [] op = "frsq" -> OP("RSQ", SRC_X_X_0)
    [] op = "fsqrt" -> OP("SQRT", SRC_X_X_0)
    [] op = "fsin" -> OP("SIN", SRC_X_X_0)
    [] op = "fcos" -> OP("COS", SRC_X_X_0)
    [] op = "fsign" -> OP("SIGN", SRC_X_X_0)
    [] op = "ffloor" -> OP("FLOOR", SRC_X_X_0)
    [] op = "fceil" -> OP("CEIL", SRC_X_X_0)
    [] op = "flog2" -> OP("LOG", SRC_X_X_0)
    [] op = "fexp2" -> OP("EXP", SRC_X_X_0)
    [] op = "seq" -> OPC("SET", SRC_0_1_X, "EQ")
    [] op = "sne" -> OPC("SET", SRC_0_1_X, "NE")
    [] op = "sge" -> OPC("SET", SRC_0_1_X, "GE")
    [] op = "slt" -> OPC("SET", SRC_0_1_X, "LT")
    [] op = "fcsel" -> OPC("SELECT", SRC_0_1_2, "NZ")
    [] op = "fdiv" -> OP("DIV", SRC_0_1_X)
    [] op \in {"fddx", "fddy"} -> OP(IF op = "fddx" THEN "DSX" ELSE "DSY", SRC_0_X_0)
    [] op = "i2f32" -> OPCT("I2F", SRC_0_X_X, "TRUE", "S32")
    [] op = "f2u32" -> OPCT("F2I", SRC_0_X_X, "TRUE", "U32")
    [] OTHER -> SentinelOp

(***************************************************************************)
(* emit_inst: c->code[c->inst_ptr++] = *inst.  The two results are the new *)
(* buffer and the new write cursor.                                        *)
(***************************************************************************)
emit_inst_code(cd, ip, inst) ==
  [i \in 1..Max(Len(cd), ip + 1) |->
     IF i = ip + 1 THEN inst ELSE IF i <= Len(cd) THEN cd[i] ELSE ZeroInst]
emit_inst_ptr(ip) == ip + 1

\* etna_emit_block_start: c->block_ptr[block] = c->inst_ptr
etna_emit_block_start_after(bp, ip, block) == [bp EXCEPT ![block] = ip + 1]
etna_emit_block_start(bp, ip, block) == [bp EXCEPT ![block] = ip]

(***************************************************************************)
(* etna_emit_alu, after its assertion: the instruction it builds.          *)
(***************************************************************************)
TranscendentalOps == {"fdiv", "flog2", "fsin", "fcos"}
SingleLaneOps == TranscendentalOps \cup {"frsq", "frcp", "fexp2", "fsqrt", "i2f32", "f2u32"}

\* etna_emit_alu broadcasting lane 0 whatever the write mask
alu_src_lane0(op, dst, src) ==
  IF op \in SingleLaneOps
  THEN [src EXCEPT ![1].swiz = inst_swiz_compose(@, INST_SWIZ_BROADCAST(0))]
  ELSE src

\* the src[] array of the caller after the switch statement
alu_src(op, dst, src) ==
  IF op \in SingleLaneOps
  THEN [src EXCEPT ![1].swiz =
          inst_swiz_compose(@, INST_SWIZ_BROADCAST(ffs(dst.write_mask) - 1))]
  ELSE src

\* etna_emit_alu reading the pattern one bit per slot instead of two
alu_inst_onebit(sp, op, dst, src, saturate) ==
  LET ei == etna_ops(op)
      s == alu_src(op, dst, src)
  IN [ZeroInst EXCEPT
        !.opcode = ei.opcode, !.type = ei.type, !.cond = ei.cond,
        !.dst = dst, !.sat = saturate,
        !.tex = IF op \in TranscendentalOps /\ sp.has_new_transcendentals
                THEN [@ EXCEPT !.amode = 1] ELSE @,
        !.src = [j \in 1..3 |->
                   LET i == (ei.src \div (2 ^ (j - 1))) % 4
                   IN IF i < 3 THEN s[i + 1] ELSE ZeroSrc]]

alu_inst(sp, op, dst, src, saturate) ==
  LET ei == etna_ops(op)
      s == alu_src(op, dst, src)
  IN [ZeroInst EXCEPT
        !.opcode = ei.opcode, !.type = ei.type, !.cond = ei.cond,
        !.dst = dst, !.sat = saturate,
        !.tex = IF op \in TranscendentalOps /\ sp.has_new_transcendentals
                THEN [@ EXCEPT !.amode = 1] ELSE @,
        !.src = [j \in 1..3 |->
                   LET i == (ei.src \div (4 ^ (j - 1))) % 4
                   IN IF i < 3 THEN s[i + 1] ELSE ZeroSrc]]

\* etna_emit_tex
tex_inst(sp, st, op, texid, dst_swiz, dst, coord, lod_bias) ==
  [ZeroInst EXCEPT
     !.dst = dst,
     !.tex = [@ EXCEPT !.id = texid + (IF st = "FS" THEN 0 ELSE sp.vertex_sampler_offset),
                       !.swiz = dst_swiz],
     !.src = [@ EXCEPT ![1] = coord, ![2] = IF lod_bias.use THEN lod_bias ELSE @],
     !.opcode = CASE op = "tex" -> "TEXLD" [] op = "txb" -> "TEXLDB"
                  [] op = "txl" -> "TEXLDL" [] OTHER -> @]

\* etna_emit_jump keeping the condition's swizzle as given
jump_inst_asgiven(block, condition) ==
  IF ~condition.use
  THEN [ZeroInst EXCEPT !.opcode = INST_OPCODE_BRANCH, !.imm = block]
  ELSE [ZeroInst EXCEPT
          !.opcode = INST_OPCODE_BRANCH, !.cond = "NOT", !.type = "U32",
          !.src = [@ EXCEPT ![1] = condition],
          !.imm = block]

\* etna_emit_jump
jump_inst(block, condition) ==
  IF ~condition.use
  THEN [ZeroInst EXCEPT !.opcode = INST_OPCODE_BRANCH, !.imm = block]
  ELSE [ZeroInst EXCEPT
          !.opcode = INST_OPCODE_BRANCH, !.cond = "NOT", !.type = "U32",
          !.src = [@ EXCEPT ![1] =
                     [condition EXCEPT !.swiz = INST_SWIZ_BROADCAST(@ % 4)]],
          !.imm = block]

\* etna_emit_discard
discard_inst(condition) ==
  IF ~condition.use
  THEN [ZeroInst EXCEPT !.opcode = INST_OPCODE_TEXKILL]
  ELSE [ZeroInst EXCEPT
          !.opcode = INST_OPCODE_TEXKILL, !.cond = "GZ",
          !.src = [@ EXCEPT ![1] =
                     [condition EXCEPT !.swiz = INST_SWIZ_BROADCAST(@ % 4)]]]

\* etna_emit_output writing the entry after the one named
etna_emit_output_next(oreg, index, src) ==
  [oreg EXCEPT ![(index + 1) % 16] = src.reg]
\* etna_emit_output: c->output_reg[index] = src.reg
etna_emit_output(oreg, index, src) == [oreg EXCEPT ![index] = src.reg]

\* etna_emit_load_ubo
load_ubo_inst(dst, src, base) ==
  [ZeroInst EXCEPT !.opcode = INST_OPCODE_LOAD, !.type = "U32", !.dst = dst,
                   !.src = [@ EXCEPT ![1] = src, ![2] = base]]

(***************************************************************************)
(* Inputs of a compile.                                                    *)
(***************************************************************************)
ETNA_NUM_INPUTS == 16

\* two hardware capability records (struct etna_specs)
HwSpecs ==
  { [halti |-> 2, has_halti2_instructions |-> FALSE,
     has_new_transcendentals |-> FALSE, vertex_sampler_offset |-> 8,
     max_instructions |-> 256, vertex_output_buffer_size |-> 512,
     vertex_cache_size |-> 16, shader_core_count |-> 4],
    [halti |-> 5, has_halti2_instructions |-> TRUE,
     has_new_transcendentals |-> TRUE, vertex_sampler_offset |-> 16,
     max_instructions |-> 512, vertex_output_buffer_size |-> 1024,
     vertex_cache_size |-> 16, shader_core_count |-> 8] }

\* an output variable list: the i-th variable has driver_location i
VarList(locs) == [i \in 1..Len(locs) |-> [location |-> locs[i], driver_location |-> i - 1]]

\* the s->outputs lists a compile is given
FsOutputLists ==
  { VarList(l) : l \in { <<>>, <<"FRAG_RESULT_COLOR">>, <<"FRAG_RESULT_DEPTH">>,
                         <<"FRAG_RESULT_DATA0", "FRAG_RESULT_DEPTH">>,
                         <<"FRAG_RESULT_STENCIL">>,
                         <<"FRAG_RESULT_STENCIL", "FRAG_RESULT_COLOR">>,
                         <<"FRAG_RESULT_COLOR", "FRAG_RESULT_STENCIL">> } }
VsOutputLists ==
  { VarList(l) : l \in { <<>>, <<"VARYING_SLOT_POS">>,
                         <<"VARYING_SLOT_POS", "VARYING_SLOT_VAR0">>,
                         <<"VARYING_SLOT_VAR0", "VARYING_SLOT_POS">>,
                         <<"VARYING_SLOT_POS", "VARYING_SLOT_PSIZ">>,
                         <<"VARYING_SLOT_VAR1", "VARYING_SLOT_VAR0">> } }

\* operands the allocator hands to the emitter callbacks
SRC_DISABLE == ZeroSrc
SrcReg(r, swiz) == [use |-> TRUE, reg |-> r, swiz |-> swiz]
DstReg(r, mask) == [use |-> TRUE, reg |-> r, write_mask |-> mask]
EmitOps == {"fadd", "iadd"}
EmitConditions == {SRC_DISABLE, SrcReg(1, INST_SWIZ(1, 1, 1, 1))}
OutputIndices == {0, 1}
OutputRegs == {1}

NoBlock == 0 - 1        \* owner of an instruction no block emitted

InitV == [code |-> <<>>, code_size |-> 0, needs_icache |-> FALSE,
          vs_pos_out_reg |-> -1, vs_pointsize_out_reg |-> -1,
          ps_color_out_reg |-> 0, ps_depth_out_reg |-> -1,
          outfile |-> <<>>, vs_load_balancing |-> 0]

(***************************************************************************)
(* The state of etna_compile_shader_nir when emit_shader starts: the       *)
(* context is zeroed (CALLOC_STRUCT), block_ptr is an uninitialised array  *)
(* of num_blocks entries.                                                  *)
(***************************************************************************)
Uninit == 0 - 2         \* an entry of block_ptr nothing has written yet
Unwritten == 0 - 1      \* an index no etna_emit_output call has named yet

LinkIdle == /\ vs = <<>> /\ fs = <<>> /\ info = <<>> /\ idx = 0 /\ comp_ofs = 0
FrontIdle == /\ nir = <<>> /\ c_nir = <<>> /\ key = <<>> /\ step = 0
FnIdle == /\ arg = <<>> /\ res = <<>>
OptIdle ==
  /\ progress = FALSE /\ pass = 0 /\ budget = 0 /\ sweeps = 0
  /\ invoked = <<>> /\ reported = {}

Init ==
  /\ ndebug \in BOOLEAN
  /\ pc = "emit"
  /\ stage \in {"VS", "FS"}
  /\ specs \in HwSpecs
  /\ num_blocks \in 1..MaxBlocks
  /\ block_ptr = [b \in 0..(num_blocks - 1) |-> Uninit]
  /\ inst_ptr = 0
  /\ code = <<>>
  /\ output_reg = [i \in 0..(ETNA_NUM_INPUTS - 1) |-> 0]
  /\ written = [i \in 0..(ETNA_NUM_INPUTS - 1) |-> Unwritten]
  /\ error = FALSE
  /\ cur = 0
  /\ owner = <<>>
  /\ sym = <<>>
  /\ outputs = <<>>
  /\ v = InitV
  /\ ret = "none"
  /\ LinkIdle
  /\ OptIdle
  /\ FrontIdle
  /\ FnIdle

(***************************************************************************)
(* The emitter callbacks, called by emit_shader block after block.         *)
(***************************************************************************)
\* c->code[c->inst_ptr++] = inst, by the block being emitted
Emit(inst, blk) ==
  /\ code' = emit_inst_code(code, inst_ptr, inst)
  /\ inst_ptr' = emit_inst_ptr(inst_ptr)
  /\ owner' = Append(owner, blk)
  /\ sym' = Append(sym, inst)

Emitting == pc = "emit" /\ cur >= 1 /\ inst_ptr < MaxInsts

EmitBlockStart ==
  /\ pc = "emit"
  /\ cur < num_blocks
  /\ block_ptr' = etna_emit_block_start(block_ptr, inst_ptr, cur)
  /\ cur' = cur + 1
  /\ UNCHANGED <<ndebug, pc, stage, specs, num_blocks, inst_ptr, code, output_reg, written,
                 error, owner, sym, outputs, v, ret, linkVars, optVars, frontVars, fnVars>>

\* assert(ei.opcode != 0xff) stops the process unless the build drops it
EmitAlu(op, dst, src, saturate) ==
  /\ Emitting
  /\ IF etna_ops(op).opcode = OPCODE_SENTINEL /\ ~ndebug
     THEN /\ pc' = "abort"
          /\ UNCHANGED <<inst_ptr, code, owner, sym>>
     ELSE /\ Emit(alu_inst(specs, op, dst, src, saturate), cur - 1)
          /\ pc' = pc
  /\ UNCHANGED <<ndebug, stage, specs, num_blocks, block_ptr, output_reg, written, error,
                 cur, outputs, v, ret, linkVars, optVars, frontVars, fnVars>>

\* nir_texop_tex only: the other texops are not drawn here
EmitTex(op, texid, dst_swiz, dst, coord, lod_bias) ==
  /\ Emitting
  /\ IF op \notin {"tex", "txb", "txl"} /\ ~ndebug
     THEN /\ pc' = "abort"
          /\ UNCHANGED <<inst_ptr, code, owner, sym>>
     ELSE /\ Emit(tex_inst(specs, stage, op, texid, dst_swiz, dst, coord, lod_bias),
                  cur - 1)
          /\ pc' = pc
  /\ UNCHANGED <<ndebug, stage, specs, num_blocks, block_ptr, output_reg, written, error,
                 cur, outputs, v, ret, linkVars, optVars, frontVars, fnVars>>

EmitJump(block, condition) ==
  /\ Emitting
  /\ Emit(jump_inst(block, condition), cur - 1)
  /\ UNCHANGED <<ndebug, pc, stage, specs, num_blocks, block_ptr, output_reg, written, error,
                 cur, outputs, v, ret, linkVars, optVars, frontVars, fnVars>>

EmitDiscard(condition) ==
  /\ Emitting
  /\ Emit(discard_inst(condition), cur - 1)
  /\ UNCHANGED <<ndebug, pc, stage, specs, num_blocks, block_ptr, output_reg, written, error,
                 cur, outputs, v, ret, linkVars, optVars, frontVars, fnVars>>

EmitOutput(index, src) ==
  /\ pc = "emit" /\ cur >= 1
  /\ output_reg' = etna_emit_output(output_reg, index, src)
  /\ written' = [written EXCEPT ![index] = src.reg]
  /\ UNCHANGED <<ndebug, pc, stage, specs, num_blocks, block_ptr, inst_ptr, code,
                 error, cur, owner, sym, outputs, v, ret, linkVars, optVars, frontVars, fnVars>>

EmitLoadUbo(dst, src, base) ==
  /\ Emitting
  /\ Emit(load_ubo_inst(dst, src, base), cur - 1)
  /\ UNCHANGED <<ndebug, pc, stage, specs, num_blocks, block_ptr, output_reg, written, error,
                 cur, outputs, v, ret, linkVars, optVars, frontVars, fnVars>>

\* emit_shader returns once every block has been emitted
EmitShaderReturn ==
  /\ pc = "emit"
  /\ cur = num_blocks
  /\ pc' = "nop"
  /\ UNCHANGED <<ndebug, compileVars, ret, linkVars, optVars, frontVars, fnVars>>

(***************************************************************************)
(* The tail of etna_compile_shader_nir, after emit_shader.                 *)
(***************************************************************************)
\* "empty shader, emit NOP"
NeedsNopAlways(ip) == TRUE
NeedsNop(ip) == ip = 0

CompileNop ==
  /\ pc = "nop"
  /\ IF NeedsNop(inst_ptr)
     THEN Emit([ZeroInst EXCEPT !.opcode = INST_OPCODE_NOP], NoBlock)
     ELSE UNCHANGED <<inst_ptr, code, owner, sym>>
  /\ pc' = "assemble"
  /\ UNCHANGED <<ndebug, stage, specs, num_blocks, block_ptr, output_reg, written, error,
                 cur, outputs, v, ret, linkVars, optVars, frontVars, fnVars>>

\* one iteration of the "fixing up labels" loop, on one instruction
fixup_inst_nocond(inst, bp, sp) ==
  [(IF inst.opcode = INST_OPCODE_BRANCH
    THEN [inst EXCEPT !.imm = bp[inst.imm]]
    ELSE inst) EXCEPT !.halti5 = (sp.halti >= 5), !.cond = ZeroInst.cond]
fixup_inst(inst, bp, sp) ==
  [(IF inst.opcode = INST_OPCODE_BRANCH
    THEN [inst EXCEPT !.imm = bp[inst.imm]]
    ELSE inst) EXCEPT !.halti5 = (sp.halti >= 5)]

\* values a read of an uninitialised block_ptr entry can give
Indeterminate == {0, 7}

\* v->code_size = c->inst_ptr * 4: the length of v->code in 32-bit words
code_size_bytes(ip) == ip * 16
code_size(ip) == ip * 4

\* assemble instructions, fixing up labels; code_size is in 32-bit words
CompileAssemble ==
  /\ pc = "assemble"
  /\ \E g \in Indeterminate :
       LET bp == [b \in DOMAIN block_ptr |->
                    IF block_ptr[b] = Uninit THEN g ELSE block_ptr[b]]
       IN code' = [i \in 1..Len(code) |->
                     IF i <= inst_ptr THEN fixup_inst(code[i], bp, specs) ELSE code[i]]
  /\ v' = [v EXCEPT !.code = SubSeq(code', 1, inst_ptr),
                    !.code_size = code_size(inst_ptr),
                    !.needs_icache = (inst_ptr > specs.max_instructions)]
  /\ pc' = IF stage = "FS" THEN "fs_outputs" ELSE "vs_outputs"
  /\ UNCHANGED <<ndebug, stage, specs, num_blocks, block_ptr, inst_ptr, output_reg, written,
                 error, cur, owner, sym, outputs, ret, linkVars, optVars, frontVars, fnVars>>

(***************************************************************************)
(* Fragment stage: the loop over s->outputs.  The result is the state of   *)
(* the variant after the loop, whether compile_error ran, and whether its  *)
(* assert(0) stopped the process.                                          *)
(***************************************************************************)
\* compile_error: c->error = true; assert(0)
compile_error(acc, nd) == [acc EXCEPT !.error = TRUE, !.aborted = ~nd]

RECURSIVE fs_outputs(_, _, _, _)
fs_outputs(outs, oreg, acc, nd) ==
  IF outs = <<>> \/ acc.aborted THEN acc
  ELSE LET var == Head(outs)
           reg == oreg[var.driver_location]
           nxt == CASE var.location \in {"FRAG_RESULT_COLOR", "FRAG_RESULT_DATA0"} ->
                         [acc EXCEPT !.ps_color_out_reg = reg]
                    [] var.location = "FRAG_RESULT_DEPTH" ->
                         [acc EXCEPT !.ps_depth_out_reg = reg]
                    [] OTHER -> compile_error(acc, nd)
       IN fs_outputs(Tail(outs), oreg, nxt, nd)

CompileFsOutputs(outs) ==
  /\ pc = "fs_outputs"
  /\ outputs' = outs
  /\ LET r == fs_outputs(outs, output_reg,
                         [ps_color_out_reg |-> v.ps_color_out_reg,
                          ps_depth_out_reg |-> v.ps_depth_out_reg,
                          error |-> error, aborted |-> FALSE], ndebug)
         \* assert(v->ps_depth_out_reg <= 0)
         stop == r.aborted \/ (~ndebug /\ r.ps_depth_out_reg > 0)
     IN /\ error' = r.error
        /\ v' = [v EXCEPT !.ps_color_out_reg = r.ps_color_out_reg,
                          !.ps_depth_out_reg = r.ps_depth_out_reg,
                          !.outfile = IF stop THEN @ ELSE <<>>]
        /\ pc' = IF stop THEN "abort" ELSE "done"
        /\ ret' = IF stop THEN ret ELSE "true"
  /\ UNCHANGED <<ndebug, stage, specs, num_blocks, block_ptr, inst_ptr, code,
                 output_reg, written, cur, owner, sym, linkVars, optVars, frontVars, fnVars>>

(***************************************************************************)
(* Vertex stage: the output file and the load balancing word.              *)
(***************************************************************************)
RECURSIVE vs_outputs(_, _, _)
vs_outputs(outs, oreg, acc) ==
  IF outs = <<>> THEN acc
  ELSE LET var == Head(outs)
           native == oreg[var.driver_location]
           nxt == CASE var.location = "VARYING_SLOT_POS" ->
                         [acc EXCEPT !.vs_pos_out_reg = native]
                    [] var.location = "VARYING_SLOT_PSIZ" ->
                         [acc EXCEPT !.vs_pointsize_out_reg = native]
                    [] OTHER ->
                         [acc EXCEPT !.outfile =
                            Append(@, [reg |-> native, slot |-> var.location,
                                       num_components |-> 4])]
       IN vs_outputs(Tail(outs), oreg, nxt)

\* uint32_t arithmetic.  A value of 2^31 or more is kept as the negative
\* number congruent to it modulo 2^32; a dividend below 2^31 divided by
\* such a divisor gives 0.
UDiv(n, d) == IF d < 0 THEN 0 ELSE n \div d

half_out(num_reg) == num_reg \div 2 + 1
lb_divisor_b(sp, half) ==
  sp.vertex_output_buffer_size - 2 * half * sp.vertex_cache_size
lb_divisor_a(sp, half) == sp.shader_core_count * half
lb_b_floor(sp, half) == UDiv(20480, lb_divisor_b(sp, half)) \div 10
lb_b(sp, half) == (UDiv(20480, lb_divisor_b(sp, half)) + 9) \div 10
lb_a(sp, half) == (lb_b(sp, half) + UDiv(256, lb_divisor_a(sp, half))) \div 2
vs_load_balancing(sp, half) ==
  [A |-> Min(lb_a(sp, half), 255) % 256, B |-> Min(lb_b(sp, half), 255) % 256,
   C |-> 63, D |-> 15]

CompileVsOutputs(outs) ==
  /\ pc = "vs_outputs"
  /\ outputs' = outs
  /\ LET r == vs_outputs(outs, output_reg,
                         [vs_pos_out_reg |-> v.vs_pos_out_reg,
                          vs_pointsize_out_reg |-> v.vs_pointsize_out_reg,
                          outfile |-> <<>>])
         half == half_out(Len(r.outfile))
         \* assert(half_out); an integer division by zero is undefined
         div0 == \/ lb_divisor_b(specs, half) = 0
                 \/ lb_divisor_a(specs, half) = 0
         stop == (~ndebug /\ half = 0) \/ div0
     IN /\ v' = [v EXCEPT !.vs_pos_out_reg = r.vs_pos_out_reg,
                          !.vs_pointsize_out_reg = r.vs_pointsize_out_reg,
                          !.outfile = r.outfile,
                          !.vs_load_balancing =
                             IF stop THEN @ ELSE vs_load_balancing(specs, half)]
        /\ pc' = IF div0 THEN "undefined" ELSE IF stop THEN "abort" ELSE "done"
        /\ ret' = IF stop THEN ret ELSE "true"
  /\ UNCHANGED <<ndebug, stage, specs, num_blocks, block_ptr, inst_ptr, code,
                 output_reg, written, error, cur, owner, sym, linkVars, optVars, frontVars, fnVars>>

Next ==
  \/ EmitBlockStart
  \/ \E op \in EmitOps :
       EmitAlu(op, DstReg(1, 15), <<SrcReg(1, INST_SWIZ_IDENTITY), SrcReg(2, INST_SWIZ_IDENTITY), SRC_DISABLE>>, FALSE)
  \/ EmitTex("tex", 0, INST_SWIZ_IDENTITY, DstReg(1, 15), SrcReg(1, INST_SWIZ_IDENTITY), SRC_DISABLE)
  \/ \E block \in 0..(num_blocks - 1), condition \in EmitConditions :
       EmitJump(block, condition)
  \/ EmitDiscard(SRC_DISABLE)
  \/ \E index \in OutputIndices, r \in OutputRegs :
       EmitOutput(index, SrcReg(r, INST_SWIZ_IDENTITY))
  \/ EmitLoadUbo(DstReg(1, 15), SrcReg(1, INST_SWIZ_IDENTITY), SrcReg(2, INST_SWIZ_IDENTITY))
  \/ EmitShaderReturn
  \/ CompileNop
  \/ CompileAssemble
  \/ \E outs \in FsOutputLists : CompileFsOutputs(outs)
  \/ \E outs \in VsOutputLists : CompileVsOutputs(outs)

Spec == Init /\ [][Next]_vars

(***************************************************************************)
(* etna_link_shader_nir.  Its inputs are a vertex variant's output file    *)
(* and a fragment variant's input file, as etna_compile_shader_nir builds  *)
(* them, and a link info the caller hands in zero-initialised.             *)
(***************************************************************************)
MaxFsInputs == 3     \* input variables of the fragment shader

VARYING_SLOT_PNTC == "VARYING_SLOT_PNTC"
VaryingSlots == {"VARYING_SLOT_VAR0", "VARYING_SLOT_VAR1", "VARYING_SLOT_VAR2",
                 VARYING_SLOT_PNTC}

\* a zeroed struct etna_shader_inout; slot 0 is VARYING_SLOT_POS
ZeroInout == [reg |-> 0, slot |-> "VARYING_SLOT_POS", num_components |-> 0]

\* "setup input linking", fragment stage: the input file of a shader whose
\* i-th input variable has location ins[i].location and driver_location
\* ins[i].driver_location
fs_input_reg(index) == index + 1

FsInfile(ins) ==
  LET n == IF ins = <<>> THEN 0
           ELSE 1 + CHOOSE m \in {ins[i].driver_location : i \in 1..Len(ins)} :
                      \A i \in 1..Len(ins) : ins[i].driver_location <= m
  IN [num_reg |-> n,
      count |-> Len(ins),
      reg |-> [k \in 1..n |->
                 IF \E i \in 1..Len(ins) : ins[i].driver_location = k - 1
                 THEN LET i == CHOOSE i \in 1..Len(ins) :
                                 /\ ins[i].driver_location = k - 1
                                 /\ \A j \in (i + 1)..Len(ins) :
                                      ins[j].driver_location # k - 1
                      IN [reg |-> fs_input_reg(k - 1), slot |-> ins[i].location,
                          num_components |-> 4]
                 ELSE ZeroInout]]

\* the fragment shaders' input variable lists: distinct slots, the i-th
\* variable at driver_location i - 1
FsInputLists ==
  UNION { { VarList(f) : f \in { g \in [1..k -> VaryingSlots] :
                                   \A a, b \in 1..k : a # b => g[a] # g[b] } } :
          k \in 0..MaxFsInputs }

\* the vertex shaders: an output variable list and the registers the
\* emitter recorded for the driver locations
VsShaders ==
  { [outs |-> VarList(l), regs |-> r] :
      l \in { <<>>,
              <<"VARYING_SLOT_VAR0", "VARYING_SLOT_VAR1", "VARYING_SLOT_POS">>,
              <<"VARYING_SLOT_VAR1", "VARYING_SLOT_VAR0">>,
              <<"VARYING_SLOT_VAR0", "VARYING_SLOT_VAR0", "VARYING_SLOT_VAR2">>,
              <<"VARYING_SLOT_VAR2", VARYING_SLOT_PNTC, "VARYING_SLOT_VAR1">> },
      r \in { <<3, 5, 4>>, <<6, 2, 7>> } }

VsOutfile(sh) ==
  vs_outputs(sh.outs,
             [i \in 0..(ETNA_NUM_INPUTS - 1) |-> IF i < Len(sh.regs) THEN sh.regs[i + 1] ELSE 0],
             [vs_pos_out_reg |-> -1, vs_pointsize_out_reg |-> -1, outfile |-> <<>>]).outfile

ZeroVarying == [num_components |-> 0, pa_attributes |-> 0,
                use |-> <<"UNUSED", "UNUSED", "UNUSED", "UNUSED">>, reg |-> 0]
ZeroLinkInfo == [num_varyings |-> 0,
                 varyings |-> [i \in 0..(ETNA_NUM_INPUTS - 1) |-> ZeroVarying],
                 pcoord_varying_comp_ofs |-> 0]

CompileIdle ==
  /\ stage = "FS" /\ specs = <<>> /\ num_blocks = 0 /\ block_ptr = <<>>
  /\ inst_ptr = 0 /\ code = <<>> /\ output_reg = <<>> /\ written = <<>> /\ error = FALSE /\ cur = 0
  /\ owner = <<>> /\ sym = <<>> /\ outputs = <<>> /\ v = <<>>

InitLink ==
  /\ ndebug \in BOOLEAN
  /\ pc = "link"
  /\ ret = "none"
  /\ \E sh \in VsShaders : vs = [outfile |-> VsOutfile(sh)]
  /\ \E ins \in FsInputLists : fs = [infile |-> FsInfile(ins)]
  /\ info = ZeroLinkInfo
  /\ idx = 0
  /\ comp_ofs = 0
  /\ CompileIdle
  /\ OptIdle
  /\ FrontIdle
  /\ FnIdle

\* etna_shader_vs_lookup: the index into sobj->outfile.reg of the first
\* output with the slot, 0 for NULL
etna_shader_vs_lookup_short(sobj, in) ==
  LET hits == {i \in 1..(Len(sobj.outfile) - 1) : sobj.outfile[i].slot = in.slot}
  IN IF hits = {} THEN 0 ELSE SetMin(hits)
etna_shader_vs_lookup_last(sobj, in) ==
  LET hits == {i \in 1..Len(sobj.outfile) : sobj.outfile[i].slot = in.slot}
  IN IF hits = {} THEN 0 ELSE CHOOSE x \in hits : \A y \in hits : y <= x
etna_shader_vs_lookup(sobj, in) ==
  LET hits == {i \in 1..Len(sobj.outfile) : sobj.outfile[i].slot = in.slot}
  IN IF hits = {} THEN 0 ELSE SetMin(hits)

\* entry of etna_link_shader_nir, up to the loop
LinkEntry ==
  /\ pc = "link"
  /\ comp_ofs' = 0
  /\ idx' = 0
  /\ IF ~ndebug /\ ~(fs.infile.num_reg < ETNA_NUM_INPUTS)
     THEN pc' = "abort" /\ info' = info
     ELSE /\ pc' = "link_loop"
          /\ info' = [info EXCEPT !.pcoord_varying_comp_ofs = -1]
  /\ UNCHANGED <<ndebug, ret, vs, fs, compileVars, optVars, frontVars, fnVars>>

\* if (fsio->reg > info->num_varyings) info->num_varyings = fsio->reg
link_num_varyings_index(nv, reg) == IF reg > nv THEN reg - 1 ELSE nv
link_num_varyings(nv, reg) == IF reg > nv THEN reg ELSE nv

\* the varying entry after the iteration for fsio, with the vertex output
\* vsio found for it (0: none)
link_varying(old, fsio, vsio) ==
  LET pntc == fsio.slot = VARYING_SLOT_PNTC
  IN [old EXCEPT
        !.num_components = fsio.num_components,
        !.pa_attributes = 753,
        !.use = IF pntc
                THEN <<"POINTCOORD_X", "POINTCOORD_Y", "UNUSED", "UNUSED">>
                ELSE <<"UNUSED", "UNUSED", "UNUSED", "UNUSED">>,
        !.reg = IF pntc \/ vsio = 0 THEN @ ELSE vs.outfile[vsio].reg]

\* comp_ofs += varying->num_components
link_comp_ofs_entries(ofs, varying) == ofs + 1
link_comp_ofs(ofs, varying) == ofs + varying.num_components

\* one iteration of the loop over the fragment inputs
LinkStep ==
  /\ pc = "link_loop"
  /\ idx < fs.infile.num_reg
  /\ LET fsio == fs.infile.reg[idx + 1]
         vsio == etna_shader_vs_lookup(vs, fsio)
         inrange == fsio.reg > 0 /\ fsio.reg <= ETNA_NUM_INPUTS
     IN IF ~inrange
        THEN \* the assertion fails; without it the store is out of bounds
             /\ pc' = IF ndebug THEN "undefined" ELSE "abort"
             /\ UNCHANGED <<info, comp_ofs, idx, ret>>
        ELSE LET varying == link_varying(info.varyings[fsio.reg - 1], fsio, vsio)
                 stored == [info EXCEPT
                              !.num_varyings = link_num_varyings(@, fsio.reg),
                              !.varyings[fsio.reg - 1] = varying]
             IN IF fsio.slot = VARYING_SLOT_PNTC
                THEN /\ info' = [stored EXCEPT !.pcoord_varying_comp_ofs = comp_ofs]
                     /\ comp_ofs' = link_comp_ofs(comp_ofs, varying)
                     /\ idx' = idx + 1
                     /\ UNCHANGED <<pc, ret>>
                ELSE IF vsio = 0
                THEN \* not found -- link error
                     /\ info' = stored
                     /\ ret' = "true"
                     /\ pc' = "done"
                     /\ UNCHANGED <<comp_ofs, idx>>
                ELSE /\ info' = stored
                     /\ comp_ofs' = link_comp_ofs(comp_ofs, varying)
                     /\ idx' = idx + 1
                     /\ UNCHANGED <<pc, ret>>
  /\ UNCHANGED <<ndebug, vs, fs, compileVars, optVars, frontVars, fnVars>>

\* after the loop: assert(info->num_varyings == fs->infile.num_reg); return false
LinkReturn ==
  /\ pc = "link_loop"
  /\ ~(idx < fs.infile.num_reg)
  /\ IF ~ndebug /\ info.num_varyings # fs.infile.num_reg
     THEN pc' = "abort" /\ ret' = ret
     ELSE pc' = "done" /\ ret' = "false"
  /\ UNCHANGED <<ndebug, vs, fs, info, idx, comp_ofs, compileVars, optVars, frontVars, fnVars>>

NextLink == LinkEntry \/ LinkStep \/ LinkReturn

SpecLink == InitLink /\ [][NextLink]_vars

(***************************************************************************)
(* etna_optimize_loop.  The passes are external: each reports progress or  *)
(* not, and all of them together report progress at most `budget` more    *)
(* times.                                                                  *)
(***************************************************************************)
MaxProgress == 2     \* times the external passes can report progress

\* the pass calls of the loop body, in the order of the source
PassOrder ==
  << "nir_lower_vars_to_ssa", "nir_opt_copy_prop_vars", "nir_copy_prop",
     "nir_opt_dce", "nir_opt_cse", "nir_opt_peephole_select", "nir_opt_intrinsics",
     "nir_opt_algebraic", "nir_opt_constant_folding", "nir_opt_dead_cf",
     "nir_opt_trivial_continues", "nir_copy_prop (cleanup)", "nir_opt_dce (cleanup)",
     "nir_opt_loop_unroll", "nir_opt_if", "nir_opt_remove_phis", "nir_opt_undef" >>

TrivialContinues == 11
\* OPT_V(...) and the two bare OPT(...) calls drop the pass's result
DropsLast(k) == k \in {1, 12, 13, 17}
DropsResult(k) == k \in {1, 12, 13}

\* the progress flag after pass k returned r
pass_progress(p, k, r) == IF DropsResult(k) THEN p ELSE (p \/ r)
\* the call after pass k returned r: the cleanup passes run only when
\* nir_opt_trivial_continues made progress
pass_next_cleanup(k, r) == k + 1
pass_next(k, r) == IF k = TrivialContinues /\ ~r THEN k + 3 ELSE k + 1

\* while (progress)
loop_never(p) == FALSE
loop_again(p) == p

InitOpt ==
  /\ ndebug \in BOOLEAN
  /\ pc = "opt_top"
  /\ ret = "none"
  /\ progress \in BOOLEAN
  /\ pass = 1
  /\ budget \in 0..MaxProgress
  /\ sweeps = 0
  /\ invoked = <<>>
  /\ reported = {}
  /\ CompileIdle
  /\ LinkIdle
  /\ FrontIdle
  /\ FnIdle

\* do { progress = false;
OptSweepStart ==
  /\ pc = "opt_top"
  /\ progress' = FALSE
  /\ pass' = 1
  /\ invoked' = <<>>
  /\ reported' = {}
  /\ pc' = "opt_pass"
  /\ UNCHANGED <<ndebug, ret, budget, sweeps, compileVars, linkVars, frontVars, fnVars>>

\* the pass call at position `pass` runs and returns r
OptPass(r) ==
  /\ pc = "opt_pass"
  /\ r => budget > 0
  /\ budget' = IF r THEN budget - 1 ELSE budget
  /\ progress' = pass_progress(progress, pass, r)
  /\ invoked' = Append(invoked, PassOrder[pass])
  /\ reported' = IF r THEN reported \cup {PassOrder[pass]} ELSE reported
  /\ pass' = pass_next(pass, r)
  /\ pc' = IF pass' > Len(PassOrder) THEN "opt_while" ELSE pc
  /\ sweeps' = IF pass' > Len(PassOrder) THEN sweeps + 1 ELSE sweeps
  /\ UNCHANGED <<ndebug, ret, compileVars, linkVars, frontVars, fnVars>>

\* } while (progress);
OptWhile ==
  /\ pc = "opt_while"
  /\ pc' = IF loop_again(progress) THEN "opt_top" ELSE "opt_done"
  /\ UNCHANGED <<ndebug, ret, optVars, compileVars, linkVars, frontVars, fnVars>>

NextOpt == OptSweepStart \/ (\E r \in BOOLEAN : OptPass(r)) \/ OptWhile

SpecOpt == InitOpt /\ [][NextOpt]_vars
\* the call runs on one thread and every pass returns
SpecOptFair == SpecOpt /\ WF_vars(NextOpt)

(***************************************************************************)
(* Properties of the compile (specification Spec).                         *)
(***************************************************************************)
\* the fix-up/assembly loop has run
Assembled == pc \in {"fs_outputs", "vs_outputs", "done"} \/ (pc = "abort" /\ v.code_size > 0)
\* the positions of the instructions block B emitted
EmittedBy(B) == {i \in 1..Len(owner) : owner[i] = B}
\* the positions of the instructions the emitter callbacks appended
EmitterAppended == {i \in 1..Len(owner) : owner[i] # NoBlock}

\* C1: after the fix-up loop every BRANCH emitted with symbolic target block B
\* has immediate block_ptr[B], and block_ptr[B] is the index of the first
\* instruction block B emitted: the number of instructions the blocks before B
\* emitted, which is where B's first instruction sits when B has one.
C1_BranchesResolved ==
  Assembled =>
    /\ \A i \in 1..inst_ptr :
         sym[i].opcode = INST_OPCODE_BRANCH =>
           /\ code[i].opcode = INST_OPCODE_BRANCH
           /\ code[i].imm = block_ptr[sym[i].imm]
    /\ \A B \in 0..(num_blocks - 1) :
         /\ block_ptr[B] = Cardinality(UNION {EmittedBy(A) : A \in 0..(B - 1)})
         /\ EmittedBy(B) # {} => block_ptr[B] = SetMin(EmittedBy(B)) - 1

\* C1 witness: a resolved branch to a block that emitted instructions, whose
\* immediate differs from the symbolic block id it was emitted with
C1_Witness ==
  /\ pc = "done"
  /\ \E i \in 1..inst_ptr :
       /\ sym[i].opcode = INST_OPCODE_BRANCH
       /\ EmittedBy(sym[i].imm) # {}
       /\ code[i].imm # sym[i].imm
       /\ code[i].imm = block_ptr[sym[i].imm]

\* C2: the instruction stream of a successful compile is non-empty: exactly
\* one NOP when the emitter appended nothing, and exactly the emitter's
\* instructions (no NOP added) when it appended at least one.
C2_StreamNonEmpty ==
  (pc = "done" /\ ret = "true") =>
    /\ Len(v.code) >= 1
    /\ EmitterAppended = {} =>
         /\ Len(v.code) = 1
         /\ v.code[1].opcode = INST_OPCODE_NOP
    /\ EmitterAppended # {} =>
         /\ Len(v.code) = Cardinality(EmitterAppended)
         /\ \A i \in 1..Len(v.code) : owner[i] # NoBlock /\ v.code[i].opcode = sym[i].opcode

\* C2 witness: a successful compile whose emitter appended nothing
C2_Witness ==
  /\ pc = "done" /\ ret = "true"
  /\ EmitterAppended = {}
  /\ Len(v.code) = 1 /\ v.code[1].opcode = INST_OPCODE_NOP

\* the locations the fragment stage routes
SupportedFragResults == {"FRAG_RESULT_COLOR", "FRAG_RESULT_DATA0", "FRAG_RESULT_DEPTH"}
DeclaresUnsupportedOutput ==
  stage = "FS" /\ \E i \in 1..Len(outputs) : outputs[i].location \notin SupportedFragResults

\* C9: a fragment shader that declares an output variable whose location is
\* neither colour nor depth makes the compile fail: the call does not return
\* success.
C9_UnsupportedOutputFails ==
  DeclaresUnsupportedOutput => ret # "true"

\* C10: no instruction in the buffer carries the sentinel opcode 0xff.
C10_NoSentinelInstruction ==
  \A i \in 1..Len(code) : code[i].opcode # OPCODE_SENTINEL

(***************************************************************************)
(* Properties of the linker (specification SpecLink).                      *)
(***************************************************************************)
FsIn(i) == fs.infile.reg[i]
\* the vertex outputs with the slot of the i-th fragment input
VsMatches(i) == {o \in 1..Len(vs.outfile) : vs.outfile[o].slot = FsIn(i).slot}
\* some fragment input that is not point-coordinate has no vertex output
MissingInput ==
  \E i \in 1..fs.infile.num_reg :
    FsIn(i).slot # VARYING_SLOT_PNTC /\ VsMatches(i) = {}
LinkReturned == pc = "done" /\ ret \in {"true", "false"}
LinkSucceeded == pc = "done" /\ ret = "false"
\* the varying entries the link has written
Populated == {i \in 0..(ETNA_NUM_INPUTS - 1) : info.varyings[i].pa_attributes # 0}

RECURSIVE ComponentsBefore(_)
ComponentsBefore(i) ==
  IF i <= 1 THEN 0 ELSE FsIn(i - 1).num_components + ComponentsBefore(i - 1)

\* C3: the link reports an error exactly when some fragment input that is not
\* point-coordinate has no vertex output with its slot; in that case the call
\* neither stops in an assertion nor runs into undefined behaviour but goes on
\* to return, and no step of the link changes the vertex or fragment variant.
C3_LinkErrorIffMissing ==
  /\ [](LinkReturned => (ret = "true" <=> MissingInput))
  /\ [](MissingInput => /\ pc \notin {"abort", "undefined"}
                        /\ (pc # "done" => ENABLED NextLink))
  /\ [][vs' = vs /\ fs' = fs]_vars

\* C3 witness: an error returned for an input that is not the first, with an
\* earlier input matched
C3_Witness ==
  /\ pc = "done" /\ ret = "true" /\ MissingInput
  /\ idx >= 1
  /\ \E i \in 1..idx : VsMatches(i) # {}

\* C4: when the link returns success, num_varyings is the highest fragment
\* input register seen and equals the fragment input count, and the populated
\* entries are exactly the indices 0 .. num_reg - 1.
C4_VaryingCount ==
  LinkSucceeded =>
    /\ info.num_varyings = fs.infile.num_reg
    /\ \A i \in 1..fs.infile.num_reg : FsIn(i).reg <= info.num_varyings
    /\ fs.infile.num_reg > 0 =>
         \E i \in 1..fs.infile.num_reg : FsIn(i).reg = info.num_varyings
    /\ Populated = 0..(fs.infile.num_reg - 1)

\* C4 witness: a successful link of a fragment variant with three inputs
C4_Witness ==
  LinkSucceeded /\ fs.infile.num_reg = 3 /\ info.num_varyings = 3

\* C5: a point-coordinate input needs no vertex output: the link succeeds
\* when every other input is matched, the input's entry carries the usage
\* tags POINTCOORD_X, POINTCOORD_Y, UNUSED, UNUSED, and
\* pcoord_varying_comp_ofs is the sum of the component counts of the inputs
\* before it; without a point-coordinate input the offset is -1.
C5_PointCoord ==
  /\ (pc = "done" /\ ~MissingInput) => ret = "false"
  /\ LinkSucceeded =>
       \A i \in 1..fs.infile.num_reg :
         FsIn(i).slot = VARYING_SLOT_PNTC =>
           /\ info.varyings[FsIn(i).reg - 1].use =
                <<"POINTCOORD_X", "POINTCOORD_Y", "UNUSED", "UNUSED">>
           /\ info.pcoord_varying_comp_ofs = ComponentsBefore(i)
  /\ (LinkReturned /\ \A i \in 1..fs.infile.num_reg : FsIn(i).slot # VARYING_SLOT_PNTC)
       => info.pcoord_varying_comp_ofs = -1

\* C5 witness: a successful link whose third input is point-coordinate, with
\* no point-coordinate vertex output, and offset 8
C5_Witness ==
  /\ LinkSucceeded
  /\ fs.infile.num_reg = 3
  /\ FsIn(3).slot = VARYING_SLOT_PNTC /\ VsMatches(3) = {}
  /\ info.pcoord_varying_comp_ofs = 8
  /\ info.varyings[2].use = <<"POINTCOORD_X", "POINTCOORD_Y", "UNUSED", "UNUSED">>

\* C6: once the loop has handled a fragment input that is not
\* point-coordinate and has a vertex output with its slot, the entry at index
\* (fragment register - 1) holds the register of the first such vertex output
\* and the component count of the fragment input.
C6_MatchedRegister ==
  pc \in {"link_loop", "done"} =>
    \A i \in 1..idx :
      (FsIn(i).slot # VARYING_SLOT_PNTC /\ VsMatches(i) # {}) =>
        /\ info.varyings[FsIn(i).reg - 1].reg = vs.outfile[SetMin(VsMatches(i))].reg
        /\ info.varyings[FsIn(i).reg - 1].num_components = FsIn(i).num_components

\* C6 witness: vertex outputs VAR0, VAR1 at registers 3, 5 and fragment
\* inputs VAR0, VAR1 at registers 1, 2 give entries 0 and 1 the registers 3, 5
C6_Witness ==
  /\ LinkSucceeded
  /\ Len(vs.outfile) = 2
  /\ vs.outfile[1] = [reg |-> 3, slot |-> "VARYING_SLOT_VAR0", num_components |-> 4]
  /\ vs.outfile[2] = [reg |-> 5, slot |-> "VARYING_SLOT_VAR1", num_components |-> 4]
  /\ fs.infile.num_reg >= 2
  /\ FsIn(1) = [reg |-> 1, slot |-> "VARYING_SLOT_VAR0", num_components |-> 4]
  /\ FsIn(2) = [reg |-> 2, slot |-> "VARYING_SLOT_VAR1", num_components |-> 4]
  /\ info.varyings[0].reg = 3 /\ info.varyings[1].reg = 5

(***************************************************************************)
(* Properties of the optimizer driver (SpecOpt, SpecOptFair).              *)
(***************************************************************************)
\* the pass calls of a sweep in which nir_opt_trivial_continues made no progress
SweepWithoutCleanup ==
  SubSeq(PassOrder, 1, TrivialContinues) \o SubSeq(PassOrder, TrivialContinues + 3, Len(PassOrder))

\* C7 as stated: the driver returns only after a full sweep in which no pass
\* invoked in that sweep, the copy-to-SSA pass included, reported progress.
C7_NoPassReported ==
  pc = "opt_done" => /\ invoked = SweepWithoutCleanup
                     /\ reported = {}

\* C7 amended: the driver returns only after a full sweep in which no pass
\* other than the copy-to-SSA pass, whose result it discards, reported
\* progress; the cleanup passes did not run in that sweep.
C7_NoAccumulatedPassReported ==
  pc = "opt_done" => /\ invoked = SweepWithoutCleanup
                     /\ reported \subseteq {"nir_lower_vars_to_ssa"}

\* C7 witness: the driver has returned after a sweep in which only the
\* copy-to-SSA pass reported progress
C7_Witness ==
  pc = "opt_done" /\ reported = {"nir_lower_vars_to_ssa"} /\ invoked = SweepWithoutCleanup

\* a finished sweep in which a pass whose result the driver keeps reported progress
SweepMadeProgress ==
  pc = "opt_while" /\ reported \ {"nir_lower_vars_to_ssa"} # {}

VecWidth == 4        \* components of the widest ALU value

IdentitySwizzle == <<0, 1, 2, 3>>
AluSrc(id, swz) == [ssa |-> id, swizzle |-> swz]
AluInstr(op, def, n, sat, src) ==
  [type |-> "alu", op |-> op, def |-> def, num_components |-> n,
   saturate |-> sat, src |-> src]
LoadConst(def, value) ==
  [type |-> "load_const", op |-> "load_const", def |-> def, num_components |-> 1,
   value |-> value]

IsAlu(instr) == instr.type = "alu"

\* the first SSA index no instruction of the list defines
FreshDef(instrs) ==
  1 + Max(0, IF instrs = <<>> THEN 0
             ELSE CHOOSE m \in {instrs[i].def : i \in 1..Len(instrs)} :
                    \A i \in 1..Len(instrs) : instrs[i].def <= m)

\* the component count of the value `id`, 1 when no listed instruction defines it
DefComponents(instrs, id) ==
  IF \E i \in 1..Len(instrs) : instrs[i].def = id
  THEN instrs[CHOOSE i \in 1..Len(instrs) : instrs[i].def = id].num_components
  ELSE 1

\* nir_ssa_def_rewrite_uses_after / nir_instr_rewrite_src on one instruction:
\* every source reading `old` reads `new` instead
RewriteUse(instr, old, new) ==
  IF instr.type = "load_const" THEN instr
  ELSE [instr EXCEPT !.src = [j \in 1..Len(@) |->
                                IF @[j].ssa = old THEN [@[j] EXCEPT !.ssa = new]
                                ELSE @[j]]]
RewriteUses(instrs, old, new) ==
  [i \in 1..Len(instrs) |-> RewriteUse(instrs[i], old, new)]

\* etna_alu_to_scalar_filter_cb
AlwaysScalarOps == {"frsq", "frcp", "flog2", "fexp2", "fsqrt", "fcos", "fsin", "fdiv"}
etna_alu_to_scalar_filter_cb_nodiv(instr, sp) ==
  IF ~IsAlu(instr) THEN FALSE
  ELSE IF instr.op \in AlwaysScalarOps \ {"fdiv"} THEN TRUE
  ELSE IF instr.op = "fdot2" THEN ~sp.has_halti2_instructions
  ELSE FALSE
etna_alu_to_scalar_filter_cb(instr, sp) ==
  IF ~IsAlu(instr) THEN FALSE
  ELSE IF instr.op \in AlwaysScalarOps THEN TRUE
  ELSE IF instr.op = "fdot2" THEN ~sp.has_halti2_instructions
  ELSE FALSE

\* nir_lower_alu_to_scalar on one instruction the filter selects: one
\* single-component instance per component of the destination, then a vec
\* that collects them under the old name
scalar_instrs(instr, fresh) ==
  LET n == instr.num_components
      part(k) == AluInstr(instr.op, fresh + k - 1, 1, instr.saturate,
                          [j \in 1..Len(instr.src) |->
                             AluSrc(instr.src[j].ssa,
                                    <<instr.src[j].swizzle[k], 1, 2, 3>>)])
  IN [k \in 1..n |-> part(k)]
     \o <<AluInstr("vec", instr.def, n, FALSE,
                   [k \in 1..n |-> AluSrc(fresh + k - 1, IdentitySwizzle)])>>

RECURSIVE lower_alu_to_scalar_all(_, _, _)
lower_alu_to_scalar_all(all, i, sp) ==
  IF i > Len(all) THEN all
  ELSE IF etna_alu_to_scalar_filter_cb(all[i], sp) /\ all[i].num_components > 1
  THEN LET new == scalar_instrs(all[i], FreshDef(all))
       IN lower_alu_to_scalar_all(SubSeq(all, 1, i - 1) \o new
                                    \o SubSeq(all, i + 1, Len(all)),
                                  i + Len(new), sp)
  ELSE lower_alu_to_scalar_all(all, i + 1, sp)

\* nir_opt_vectorize run to its fixed point: instances of one opcode may
\* have been merged into a wider one
nir_opt_vectorize(instrs) ==
  {instrs} \cup
  { [instrs EXCEPT ![w[1]].num_components = w[2]] :
      w \in { x \in (1..Len(instrs)) \X (1..VecWidth) :
                /\ IsAlu(instrs[x[1]])
                /\ instrs[x[1]].op # "vec"
                /\ x[2] > instrs[x[1]].num_components } }

\* etna_lower_alu_impl, first rewrite: multiply sin/cos src by constant
SinCosOps == {"fsin", "fcos"}
sincos_scale(sp) == IF sp.has_new_transcendentals THEN "1/pi" ELSE "2/pi"
sincos_instrs(all, instr, sp) ==
  LET f == FreshDef(all)
      imm == LoadConst(f, sincos_scale(sp))
      mul == AluInstr("fmul", f + 1, DefComponents(all, instr.src[1].ssa), FALSE,
                      <<AluSrc(instr.src[1].ssa, IdentitySwizzle),
                        AluSrc(f, IdentitySwizzle)>>)
  IN <<imm, mul, [instr EXCEPT !.src[1].ssa = f + 1]>>

\* etna_lower_alu_impl, second rewrite: change transcendental ops to vec2
\* and insert vec1 mul for the result
WidenedOps == {"fdiv", "flog2", "fsin", "fcos"}
widen_components(n) == 2
widen_saturate(sat) == FALSE
\* the trailing multiply reading component 0 twice
widen_mul_same(instr, def) ==
  AluInstr("fmul", def, 1, instr.saturate,
           <<AluSrc(instr.def, IdentitySwizzle), AluSrc(instr.def, IdentitySwizzle)>>)
widen_mul(instr, def) ==
  AluInstr("fmul", def, 1, instr.saturate,
           <<AluSrc(instr.def, IdentitySwizzle), AluSrc(instr.def, <<1, 1, 2, 3>>)>>)
widen_instr(instr) ==
  [instr EXCEPT !.num_components = widen_components(@),
                !.saturate = widen_saturate(@)]

\* etna_lower_alu_impl from instruction i on; instructions it inserts are
\* not visited (nir_foreach_instr_safe)
RECURSIVE etna_lower_alu_impl(_, _, _, _)
etna_lower_alu_impl(all, i, sp, nd) ==
  IF i > Len(all) THEN [instrs |-> all, stop |-> "none"]
  ELSE IF ~IsAlu(all[i]) THEN etna_lower_alu_impl(all, i + 1, sp, nd)
  ELSE
    LET scaled == IF all[i].op \in SinCosOps
                  THEN SubSeq(all, 1, i - 1) \o sincos_instrs(all, all[i], sp)
                         \o SubSeq(all, i + 1, Len(all))
                  ELSE all
        at == IF all[i].op \in SinCosOps THEN i + 2 ELSE i
        instr == scaled[at]
    IN IF sp.has_new_transcendentals /\ instr.op \in WidenedOps
       THEN IF ~nd /\ instr.num_components # 1
            THEN [instrs |-> scaled, stop |-> "abort"]
            ELSE LET f == FreshDef(scaled)
                     widened == SubSeq(scaled, 1, at - 1)
                                  \o <<widen_instr(instr), widen_mul(instr, f)>>
                                  \o RewriteUses(SubSeq(scaled, at + 1, Len(scaled)),
                                                 instr.def, f)
                 IN etna_lower_alu_impl(widened, at + 2, sp, nd)
       ELSE etna_lower_alu_impl(scaled, at + 1, sp, nd)

(***************************************************************************)
(* etna_lower_io.                                                          *)
(***************************************************************************)
Intrinsic(op, def, n, base, src) ==
  [type |-> "intrinsic", op |-> op, def |-> def, num_components |-> n,
   base |-> base, src |-> src]
SsaSrc(id) == [ssa |-> id]

\* the loop over shader->outputs: the driver_location of the last variable
\* at FRAG_RESULT_COLOR or FRAG_RESULT_DATA0, 0 when there is none
ColorResults == {"FRAG_RESULT_COLOR", "FRAG_RESULT_DATA0"}
RECURSIVE color_location(_, _)
color_location(outs, acc) ==
  IF outs = <<>> THEN acc
  ELSE color_location(Tail(outs),
                      IF Head(outs).location \in ColorResults
                      THEN Head(outs).driver_location ELSE acc)

lower_io_rb_swap(st, k) == st = "FS" /\ k.frag_rb_swap

\* the swizzle nir_mov gives its source, then swizzle[0] = 2, swizzle[2] = 0
mov_swizzle(n) == [j \in 1..VecWidth |-> Min(j - 1, n - 1)]
rb_swizzle(swz) == [swz EXCEPT ![1] = 2, ![3] = 0]

swaps_store(intr, rb_swap, cl) == rb_swap /\ intr.base = cl

\* the switch over intr->intrinsic: the instructions put before and after
\* the intrinsic, the intrinsic as rewritten, and the value whose later
\* uses are renamed (<<>> for none)
lower_io_intrinsic(all, intr, rb_swap, cl) ==
  LET f == FreshDef(all)
      same == [before |-> <<>>, instr |-> intr, after |-> <<>>, rename |-> <<>>]
  IN CASE intr.op = "load_front_face" ->
            [same EXCEPT
               !.after = <<LoadConst(f, "0.0"),
                           AluInstr("seq", f + 1, intr.num_components, FALSE,
                                    <<AluSrc(intr.def, IdentitySwizzle),
                                      AluSrc(f, IdentitySwizzle)>>)>>,
               !.rename = <<intr.def, f + 1>>]
       [] intr.op = "store_output" ->
            IF ~swaps_store(intr, rb_swap, cl) THEN same
            ELSE LET n == DefComponents(all, intr.src[1].ssa)
                 IN [same EXCEPT
                       !.before = <<AluInstr("mov", f, n, FALSE,
                                             <<AluSrc(intr.src[1].ssa,
                                                      rb_swizzle(mov_swizzle(n)))>>)>>,
                       !.instr = [intr EXCEPT !.src[1].ssa = f]]
       [] intr.op = "load_instance_id" ->
            [same EXCEPT
               !.after = <<AluInstr("i2f32", f, intr.num_components, FALSE,
                                    <<AluSrc(intr.def, IdentitySwizzle)>>)>>,
               !.rename = <<intr.def, f>>]
       [] intr.op = "load_uniform" ->
            LET n == DefComponents(all, intr.src[1].ssa)
            IN [same EXCEPT
                  !.before = <<LoadConst(f, "16.0"),
                               AluInstr("fmul", f + 1, n, FALSE,
                                        <<AluSrc(intr.src[1].ssa, IdentitySwizzle),
                                          AluSrc(f, IdentitySwizzle)>>),
                               AluInstr("f2u32", f + 2, n, FALSE,
                                        <<AluSrc(f + 1, IdentitySwizzle)>>)>>,
                  !.instr = [intr EXCEPT !.src[1].ssa = f + 2]]
       [] OTHER -> same

TexSrc(t, id) == [src_type |-> t, ssa |-> id]
TexInstr(op, def, dim, sampler, texture, cc, src) ==
  [type |-> "tex", op |-> op, def |-> def, num_components |-> 4,
   sampler_dim |-> dim, sampler_index |-> sampler, texture_index |-> texture,
   coord_components |-> cc, src |-> src]

SetMax(S) == CHOOSE x \in S : \A y \in S : y <= x

\* the scan of tex->src: the slot coord points at and the slot lod_bias
\* points at when the loop ends, 0 for NULL
tex_coord(tex) ==
  LET hits == {i \in 1..Len(tex.src) : tex.src[i].src_type = "coord"}
  IN IF hits = {} THEN 0 ELSE SetMax(hits)
LodBiasTypes == {"bias", "lod"}
tex_lod_bias(tex) ==
  LET hits == {i \in 1..Len(tex.src) : tex.src[i].src_type \in LodBiasTypes}
  IN IF hits = {} THEN 0 ELSE SetMax(hits)
\* an assertion of the scan fails
tex_scan_asserts(tex) ==
  \/ tex.sampler_index # tex.texture_index
  \/ Cardinality({i \in 1..Len(tex.src) : tex.src[i].src_type \in LodBiasTypes}) > 1
  \/ \E i \in 1..Len(tex.src) : tex.src[i].src_type \notin LodBiasTypes \cup {"coord"}

\* GLSL_SAMPLER_DIM_RECT: a dummy load_uniform represents the texcoord scale
rect_instrs(all, tex, coord) ==
  LET f == FreshDef(all)
  IN <<LoadConst(f, "0.0"),
       Intrinsic("load_uniform", f + 1, 2, 0 - tex.sampler_index - 1, <<SsaSrc(f)>>),
       AluInstr("fmul", f + 2, Max(DefComponents(all, tex.src[coord].ssa), 2), FALSE,
                <<AluSrc(tex.src[coord].ssa, IdentitySwizzle),
                  AluSrc(f + 1, IdentitySwizzle)>>)>>

\* pre HALTI5 needs texture sources in a single source
pack_vec(tex, coord, lod_bias, def) ==
  AluInstr("vec4", def, 4, FALSE,
           [i \in 1..4 |-> IF i <= tex.coord_components
                           THEN AluSrc(tex.src[coord].ssa, <<i - 1, 1, 2, 3>>)
                           ELSE AluSrc(tex.src[lod_bias].ssa, IdentitySwizzle)])
\* nir_tex_instr_remove_src shifts the later sources down; coord still
\* points at the slot it pointed at before
pack_tex(tex, coord, lod_bias, def) ==
  LET removed == [j \in 1..(Len(tex.src) - 1) |->
                    IF j < lod_bias THEN tex.src[j] ELSE tex.src[j + 1]]
  IN [tex EXCEPT !.src = IF coord <= Len(removed)
                         THEN [removed EXCEPT ![coord].ssa = def]
                         ELSE removed,
                 !.coord_components = 4]

\* the texture part of the loop body: the instructions put before the
\* texture op, the op as rewritten, and how the body ends
lower_io_tex(all, tex, sp, nd) ==
  LET coord == tex_coord(tex)
      lod_bias == tex_lod_bias(tex)
      rect == tex.sampler_dim = "RECT"
      same == [before |-> <<>>, instr |-> tex, stop |-> "none"]
  IN IF ~nd /\ tex_scan_asserts(tex) THEN [same EXCEPT !.stop = "abort"]
     ELSE IF rect /\ coord = 0 THEN [same EXCEPT !.stop = "undefined"]
     ELSE
       LET scale == IF rect THEN rect_instrs(all, tex, coord) ELSE <<>>
           scaled == IF rect THEN [tex EXCEPT !.src[coord].ssa = FreshDef(all) + 2]
                     ELSE tex
           f == FreshDef(all) + Len(scale)
           done == [before |-> scale, instr |-> scaled, stop |-> "none"]
       IN IF lod_bias = 0 \/ sp.halti >= 5 THEN done
          ELSE IF ~nd /\ (coord = 0 \/ ~(scaled.coord_components < 4))
          THEN [done EXCEPT !.stop = "abort"]
          ELSE IF coord = 0 THEN [done EXCEPT !.stop = "undefined"]
          ELSE [before |-> scale \o <<pack_vec(scaled, coord, lod_bias, f)>>,
                instr |-> pack_tex(scaled, coord, lod_bias, f),
                stop |-> "none"]

\* etna_lower_io from instruction i on; instructions it inserts are not
\* visited (nir_foreach_instr_safe)
RECURSIVE etna_lower_io_from(_, _, _, _, _, _)
etna_lower_io_from(all, i, rb_swap, cl, sp, nd) ==
  IF i > Len(all) THEN [instrs |-> all, stop |-> "none"]
  ELSE IF all[i].type = "intrinsic"
  THEN LET r == lower_io_intrinsic(all, all[i], rb_swap, cl)
           rest == SubSeq(all, i + 1, Len(all))
       IN etna_lower_io_from(
            SubSeq(all, 1, i - 1) \o r.before \o <<r.instr>> \o r.after
              \o (IF r.rename = <<>> THEN rest
                  ELSE RewriteUses(rest, r.rename[1], r.rename[2])),
            i + Len(r.before) + 1 + Len(r.after), rb_swap, cl, sp, nd)
  ELSE IF all[i].type = "tex"
  THEN LET r == lower_io_tex(all, all[i], sp, nd)
           new == SubSeq(all, 1, i - 1) \o r.before \o <<r.instr>>
                    \o SubSeq(all, i + 1, Len(all))
       IN IF r.stop # "none" THEN [instrs |-> new, stop |-> r.stop]
          ELSE etna_lower_io_from(new, i + Len(r.before) + 1, rb_swap, cl, sp, nd)
  ELSE etna_lower_io_from(all, i + 1, rb_swap, cl, sp, nd)

etna_lower_io(sh, st, k, sp, nd) ==
  etna_lower_io_from(sh.instrs, 1, lower_io_rb_swap(st, k),
                     color_location(sh.outputs, 0), sp, nd)

(***************************************************************************)
(* The calls of etna_compile_shader_nir up to emit_shader, in program      *)
(* order.  The passes of the NIR library keep the instructions of this     *)
(* abstraction as they are, except nir_lower_alu_to_scalar and             *)
(* nir_opt_vectorize.                                                      *)
(***************************************************************************)
FrontEnd_early_io ==
  << "nir_shader_clone", "nir_lower_io", "nir_lower_regs_to_ssa",
     "nir_lower_vars_to_ssa", "nir_lower_indirect_derefs", "nir_lower_tex",
     "nir_lower_alu_to_scalar", "etna_optimize_loop", "nir_lower_int_to_float",
     "nir_opt_algebraic", "etna_lower_io", "nir_lower_bool_to_float",
     "etna_optimize_loop", "nir_opt_vectorize", "nir_lower_alu_to_scalar",
     "nir_remove_dead_variables", "nir_opt_algebraic_late",
     "nir_move_vec_src_uses_to_dest", "nir_copy_prop", "nir_lower_to_source_mods",
     "nir_opt_dce", "etna_lower_alu" >>
FrontEnd ==
  << "nir_shader_clone", "nir_lower_io", "nir_lower_regs_to_ssa",
     "nir_lower_vars_to_ssa", "nir_lower_indirect_derefs", "nir_lower_tex",
     "nir_lower_alu_to_scalar", "etna_optimize_loop", "nir_lower_int_to_float",
     "nir_opt_algebraic", "nir_lower_bool_to_float", "etna_lower_io",
     "etna_optimize_loop", "nir_opt_vectorize", "nir_lower_alu_to_scalar",
     "nir_remove_dead_variables", "nir_opt_algebraic_late",
     "nir_move_vec_src_uses_to_dest", "nir_copy_prop", "nir_lower_to_source_mods",
     "nir_opt_dce", "etna_lower_alu" >>

\* what the call `name` can leave in c->nir, and how it ends
front_call(name, in, sh, st, k, sp, nd) ==
  CASE name = "nir_shader_clone" -> {[shader |-> in, stop |-> "none"]}
    [] name = "nir_lower_alu_to_scalar" ->
         {[shader |-> [sh EXCEPT !.instrs = lower_alu_to_scalar_all(@, 1, sp)],
           stop |-> "none"]}
    [] name = "etna_lower_io" ->
         LET r == etna_lower_io(sh, st, k, sp, nd)
         IN {[shader |-> [sh EXCEPT !.instrs = r.instrs], stop |-> r.stop]}
    [] name = "nir_opt_vectorize" ->
         {[shader |-> [sh EXCEPT !.instrs = x], stop |-> "none"] :
            x \in nir_opt_vectorize(sh.instrs)}
    [] name = "etna_lower_alu" ->
         LET r == etna_lower_alu_impl(sh.instrs, 1, sp, nd)
         IN {[shader |-> [sh EXCEPT !.instrs = r.instrs], stop |-> r.stop]}
    [] OTHER -> {[shader |-> sh, stop |-> "none"]}

\* the shaders handed to a compile
LoadInput(def, n) == Intrinsic("load_input", def, n, 0, <<>>)
StoreOutput(base, id) == Intrinsic("store_output", 0, 0, base, <<SsaSrc(id)>>)

FrontAluOps == AlwaysScalarOps \cup {"fdot2", "fadd"}
BinaryOps == {"fdiv", "fdot2", "fadd"}
AluShaders(outs) ==
  { [outputs |-> outs,
     instrs |-> <<LoadInput(1, 4),
                  AluInstr(op, 2, n, sat,
                           IF op \in BinaryOps
                           THEN <<AluSrc(1, IdentitySwizzle), AluSrc(1, <<3, 2, 1, 0>>)>>
                           ELSE <<AluSrc(1, IdentitySwizzle)>>),
                  StoreOutput(0, 2)>>] :
      op \in FrontAluOps, n \in 1..VecWidth, sat \in BOOLEAN }

TexSrcLists ==
  { <<>>, <<TexSrc("coord", 1)>>, <<TexSrc("bias", 2)>>,
    <<TexSrc("coord", 1), TexSrc("bias", 2)>>,
    <<TexSrc("lod", 2), TexSrc("coord", 1)>>,
    <<TexSrc("coord", 1), TexSrc("bias", 2), TexSrc("lod", 2)>>,
    <<TexSrc("coord", 1), TexSrc("offset", 2)>> }
TexShaders(outs) ==
  { [outputs |-> outs,
     instrs |-> <<LoadInput(1, 4), LoadInput(2, 1),
                  TexInstr("tex", 3, dim, ix[1], ix[2], cc, src),
                  StoreOutput(0, 3)>>] :
      dim \in {"2D", "RECT"}, ix \in {<<0, 0>>, <<1, 0>>}, cc \in {2, 4},
      src \in TexSrcLists }

IntrinsicShaders(outs) ==
  { [outputs |-> outs,
     instrs |-> <<Intrinsic(op, 1, 1, 0, IF op = "load_uniform" THEN <<SsaSrc(0)>> ELSE <<>>),
                  StoreOutput(0, 1)>>] :
      op \in {"load_front_face", "load_instance_id", "load_uniform"} }

\* one store per declared output variable
StoreShaders(outs) ==
  { [outputs |-> outs,
     instrs |-> <<LoadInput(1, 4)>>
                \o [i \in 1..Len(outs) |-> StoreOutput(outs[i].driver_location, 1)]] }

EmptyShader == [outputs |-> <<>>, instrs |-> <<>>]

FrontShaders(st) ==
  LET lists == IF st = "FS" THEN FsOutputLists ELSE VsOutputLists
      one == IF st = "FS" THEN VarList(<<"FRAG_RESULT_COLOR">>)
             ELSE VarList(<<"VARYING_SLOT_POS">>)
  IN {EmptyShader} \cup AluShaders(one) \cup TexShaders(one) \cup IntrinsicShaders(one)
       \cup UNION {StoreShaders(outs) : outs \in lists}

InitFront ==
  /\ ndebug \in BOOLEAN
  /\ pc = "front"
  /\ stage \in {"VS", "FS"}
  /\ specs \in HwSpecs
  /\ num_blocks \in 1..MaxBlocks
  /\ block_ptr = <<>>
  /\ inst_ptr = 0
  /\ code = <<>>
  /\ output_reg = [i \in 0..(ETNA_NUM_INPUTS - 1) |-> 0]
  /\ written = [i \in 0..(ETNA_NUM_INPUTS - 1) |-> Unwritten]
  /\ error = FALSE
  /\ cur = 0
  /\ owner = <<>>
  /\ sym = <<>>
  /\ outputs = <<>>
  /\ v = <<>>
  /\ ret = "none"
  /\ nir \in FrontShaders(stage)
  /\ c_nir = <<>>
  /\ key \in [frag_rb_swap : BOOLEAN]
  /\ step = 0
  /\ LinkIdle
  /\ OptIdle
  /\ FnIdle

\* the next call of the front end
FrontCall ==
  /\ pc = "front"
  /\ step < Len(FrontEnd)
  /\ \E r \in front_call(FrontEnd[step + 1], nir, c_nir, stage, key, specs, ndebug) :
       /\ c_nir' = r.shader
       /\ pc' = IF r.stop = "none" THEN pc ELSE r.stop
       /\ step' = IF r.stop = "none" THEN step + 1 ELSE step
  /\ v' = IF FrontEnd[step + 1] = "nir_shader_clone" THEN InitV ELSE v
  /\ UNCHANGED <<ndebug, stage, specs, num_blocks, block_ptr, inst_ptr, code,
                 output_reg, written, error, cur, owner, sym, outputs, ret, nir, key,
                 linkVars, optVars, fnVars>>

\* unsigned block_ptr[num_blocks]; ... emit_shader(c->nir, &options, ...)
EmitShaderCall ==
  /\ pc = "front"
  /\ step = Len(FrontEnd)
  /\ block_ptr' = [b \in 0..(num_blocks - 1) |-> Uninit]
  /\ pc' = "emit"
  /\ UNCHANGED <<ndebug, stage, specs, num_blocks, inst_ptr, code, output_reg, written,
                 error, cur, owner, sym, outputs, v, ret, linkVars, optVars,
                 frontVars, fnVars>>

NextFront == FrontCall \/ EmitShaderCall

SpecFront == InitFront /\ [][NextFront]_vars

(***************************************************************************)
(* Properties of the front end.                                            *)
(***************************************************************************)
\* the rewritten IR is handed to the emitter
ReachesEmitter == pc = "emit"
AlwaysScalarInstrs == {i \in 1..Len(c_nir.instrs) :
                         /\ IsAlu(c_nir.instrs[i])
                         /\ c_nir.instrs[i].op \in AlwaysScalarOps}

\* C11, as stated: in the IR that reaches the emitter no instance of an
\* always-scalarize opcode (frsq, frcp, flog2, fexp2, fsqrt, fcos, fsin,
\* fdiv) has a destination of more than 1 component, on every target.
C11_AlwaysScalar ==
  ReachesEmitter =>
    \A i \in AlwaysScalarInstrs : c_nir.instrs[i].num_components <= 1

\* C11, amended: in the IR that reaches the emitter every instance of an
\* always-scalarize opcode has a 1-component destination, except that on
\* targets with the improved transcendental unit the instances of fdiv,
\* flog2, fsin and fcos have exactly 2 components.
C11_AlwaysScalarOrWidened ==
  ReachesEmitter =>
    \A i \in AlwaysScalarInstrs :
      c_nir.instrs[i].num_components =
        IF specs.has_new_transcendentals /\ c_nir.instrs[i].op \in WidenedOps
        THEN 2 ELSE 1

\* a 4-component fdiv was split and its parts widened to 2 components
C11_Witness ==
  /\ ReachesEmitter
  /\ specs.has_new_transcendentals
  /\ \E i \in 1..Len(nir.instrs) :
       /\ IsAlu(nir.instrs[i])
       /\ nir.instrs[i].op = "fdiv"
       /\ nir.instrs[i].num_components = 4
  /\ Cardinality({i \in AlwaysScalarInstrs : c_nir.instrs[i].num_components = 2}) >= 4

(***************************************************************************)
(* The load-balancing estimate at the end of the vertex compile, applied   *)
(* to an output count and a hardware record on its own.  The output file   *)
(* has ETNA_NUM_INPUTS entries, so the count is at most that.              *)
(***************************************************************************)
\* the hardware records of the compile and one with a small output buffer
LbSpecs ==
  HwSpecs \cup
  { [halti |-> 2, has_halti2_instructions |-> FALSE,
     has_new_transcendentals |-> FALSE, vertex_sampler_offset |-> 8,
     max_instructions |-> 256, vertex_output_buffer_size |-> 40,
     vertex_cache_size |-> 16, shader_core_count |-> 1],
    [halti |-> 2, has_halti2_instructions |-> FALSE,
     has_new_transcendentals |-> FALSE, vertex_sampler_offset |-> 8,
     max_instructions |-> 256, vertex_output_buffer_size |-> 96,
     vertex_cache_size |-> 16, shader_core_count |-> 1] }

InitLb ==
  /\ ndebug \in BOOLEAN
  /\ pc = "lb"
  /\ ret = "none"
  /\ arg \in [specs : LbSpecs, num_reg : 0..ETNA_NUM_INPUTS]
  /\ res = <<>>
  /\ CompileIdle
  /\ LinkIdle
  /\ OptIdle
  /\ FrontIdle

\* int half_out = v->outfile.num_reg / 2 + 1; ... v->vs_load_balancing = ...
LoadBalance ==
  /\ pc = "lb"
  /\ LET half == half_out(arg.num_reg)
         \* an integer division by zero is undefined
         div0 == \/ lb_divisor_b(arg.specs, half) = 0
                 \/ lb_divisor_a(arg.specs, half) = 0
         stop == ~ndebug /\ half = 0
     IN /\ res' = IF stop \/ div0 THEN res ELSE vs_load_balancing(arg.specs, half)
        /\ pc' = IF stop THEN "abort" ELSE IF div0 THEN "undefined" ELSE "done"
  /\ UNCHANGED <<ndebug, ret, arg, compileVars, linkVars, optVars, frontVars>>

NextLb == LoadBalance

SpecLb == InitLb /\ [][NextLb]_vars

\* the quotient n / d of two 32-bit unsigned values, d given as the signed
\* value of the same bits and n below 2^31
C12_Quot(n, d) == IF d > 0 THEN n \div d ELSE 0
C12_half == arg.num_reg \div 2 + 1
C12_b ==
  (C12_Quot(20480, arg.specs.vertex_output_buffer_size
                     - 2 * C12_half * arg.specs.vertex_cache_size) + 9) \div 10
C12_a == (C12_b + C12_Quot(256, arg.specs.shader_core_count * C12_half)) \div 2

\* C12: for N output registers and hardware constants vob, vcs, cores, with
\* half = N/2 + 1, the B and A fields of vs_load_balancing are min(b, 255)
\* and min(a, 255) for b = (20480 / (vob - 2*half*vcs) + 9) / 10 and
\* a = (b + 256 / (cores*half)) / 2, both are in [0, 255], and the C and D
\* fields are 0x3f and 0x0f.
C12_LoadBalancing ==
  pc = "done" /\ res # <<>> =>
    /\ res.B = Min(C12_b, 255)
    /\ res.A = Min(C12_a, 255)
    /\ res.A \in 0..255
    /\ res.B \in 0..255
    /\ res.C = 63
    /\ res.D = 15

\* both coefficients were clamped
C12_Witness ==
  /\ pc = "done"
  /\ res # <<>>
  /\ C12_b > 255
  /\ C12_a > 255
  /\ res.A = 255
  /\ res.B = 255

(***************************************************************************)
(* Properties of the assembled code.                                       *)
(***************************************************************************)
\* sizeof(uint32_t), the unit of v->code and v->code_size
WordBytes == 4
\* bytes of one assembled instruction: etna_assemble fills code[i * 4 ..]
InstBytes == 16

\* C13: the code size recorded in the variant, taken in bytes, is the final
\* instruction count times the 16-byte (4-word) instruction stride, for
\* every instruction count including the single NOP.
C13_CodeSize ==
  Assembled =>
    /\ Len(v.code) = inst_ptr
    /\ v.code_size * WordBytes = inst_ptr * InstBytes

\* the empty shader: one NOP, four words
C13_Witness ==
  /\ Assembled
  /\ inst_ptr = 1
  /\ v.code[1].opcode = INST_OPCODE_NOP
  /\ v.code_size = 4

\* code[i] with the immediate (unless keep_imm) and the halti5 flag (unless
\* keep_flag) put back to what they were when the instruction was appended
AsAppended(i, keep_imm, keep_flag) ==
  [code[i] EXCEPT !.imm = IF keep_imm THEN @ ELSE sym[i].imm,
                  !.halti5 = IF keep_flag THEN @ ELSE sym[i].halti5]

\* C14, as stated: an appended instruction keeps every field through the
\* rest of the compile, except the immediate of a BRANCH; non-branch
\* instructions (discard/kill included) keep every field.
C14_OnlyBranchImmChanges ==
  \A i \in 1..Len(sym) :
    AsAppended(i, sym[i].opcode # INST_OPCODE_BRANCH, TRUE) = sym[i]

\* C14, amended: an appended instruction keeps every field except the
\* immediate of a BRANCH and the halti5 flag; the assembly loop sets the
\* flag of every instruction, branch or not, to (capability tier >= 5).
C14_OnlyImmAndFlagChange ==
  /\ \A i \in 1..Len(sym) :
       AsAppended(i, sym[i].opcode # INST_OPCODE_BRANCH, FALSE) = sym[i]
  /\ Assembled => \A i \in 1..inst_ptr : code[i].halti5 = (specs.halti >= 5)

\* a discard whose flag the assembly loop set and a branch it resolved
C14_Witness ==
  /\ Assembled
  /\ \E i \in 1..inst_ptr :
       /\ sym[i].opcode = INST_OPCODE_TEXKILL
       /\ code[i].halti5
       /\ ~sym[i].halti5
  /\ \E j \in 1..inst_ptr :
       /\ sym[j].opcode = INST_OPCODE_BRANCH
       /\ code[j].imm # sym[j].imm

(***************************************************************************)
(* The whole compile: the front end, then the emitter callbacks and the    *)
(* tail, for one shader per stage.                                         *)
(***************************************************************************)
CompileShaders(st) ==
  StoreShaders(IF st = "FS" THEN VarList(<<"FRAG_RESULT_COLOR">>)
               ELSE VarList(<<"VARYING_SLOT_POS">>))

InitCompile ==
  /\ InitFront
  /\ nir \in CompileShaders(stage)
  /\ key = [frag_rb_swap |-> FALSE]

NextCompile == NextFront \/ Next

SpecCompile == InitCompile /\ [][NextCompile]_vars

\* the stage of the pipeline each call of the front end belongs to
C15_StageOfCall(name, k) ==
  CASE name = "nir_shader_clone" -> "clone"
    [] name = "etna_optimize_loop" -> "optimizer loop"
    [] name \in {"nir_lower_int_to_float", "nir_opt_algebraic",
                 "nir_lower_bool_to_float"} -> "int/bool lowering"
    [] name = "etna_lower_io" -> "architecture IO lowering"
    [] name \in {"nir_opt_vectorize", "nir_remove_dead_variables",
                 "nir_opt_algebraic_late", "nir_move_vec_src_uses_to_dest",
                 "nir_copy_prop", "nir_lower_to_source_mods", "nir_opt_dce",
                 "etna_lower_alu"} -> "ALU scalarization and transcendental lowering"
    [] name = "nir_lower_alu_to_scalar" ->
         IF \E j \in 1..k : FrontEnd[j] = "nir_opt_vectorize"
         THEN "ALU scalarization and transcendental lowering"
         ELSE "IO lowering"
    [] OTHER -> "IO lowering"

\* the stages in the order the compile is to run them
C15_Order(st) ==
  << "clone", "IO lowering", "optimizer loop", "int/bool lowering",
     "architecture IO lowering", "optimizer loop",
     "ALU scalarization and transcendental lowering", "emission",
     "NOP-if-empty", "fix-up and assembly" >>
  \o (IF st = "VS" THEN <<"load balancing">> ELSE <<>>)

\* a sequence without its immediate repetitions
RECURSIVE C15_Dedup(_)
C15_Dedup(q) ==
  IF Len(q) <= 1 THEN q
  ELSE IF q[1] = q[2] THEN C15_Dedup(Tail(q))
  ELSE <<q[1]>> \o C15_Dedup(Tail(q))

C15_Running == pc \notin {"abort", "undefined"}
\* the stages that have run or are running
C15_Run ==
  C15_Dedup([k \in 1..step |-> C15_StageOfCall(FrontEnd[k], k)])
  \o (IF pc \in {"emit", "nop", "assemble", "fs_outputs", "vs_outputs", "done"}
      THEN <<"emission">> ELSE <<>>)
  \o (IF pc \in {"assemble", "fs_outputs", "vs_outputs", "done"}
      THEN <<"NOP-if-empty">> ELSE <<>>)
  \o (IF pc \in {"fs_outputs", "vs_outputs", "done"}
      THEN <<"fix-up and assembly">> ELSE <<>>)
  \o (IF pc = "done" /\ stage = "VS" THEN <<"load balancing">> ELSE <<>>)

C15_CallsRun(name) == {k \in 1..step : FrontEnd[k] = name}
C15_IsPrefix(p, q) == Len(p) <= Len(q) /\ p = SubSeq(q, 1, Len(p))

LacksNeededSource(tex, sp) ==
  /\ tex_coord(tex) = 0
  /\ \/ tex.sampler_dim = "RECT"
     \/ sp.halti < 5 /\ tex_lod_bias(tex) # 0
MeetsLackingTex ==
  \E i \in 1..Len(nir.instrs) :
    nir.instrs[i].type = "tex" /\ LacksNeededSource(nir.instrs[i], specs)
\* the number of front-end calls before etna_lower_io
LowerIoAt == CHOOSE k \in 1..Len(FrontEnd) : FrontEnd[k] = "etna_lower_io"

\* C16: when etna_lower_io meets a texture op that lacks a source it needs
\* (rectangle sampler without coordinate, or below tier 5 with bias/lod but
\* without coordinate), the compile stops with an explicit error before the
\* missing source is used: no null source is dereferenced and the pass does
\* not return normally.
C16_MissingSourceIsError ==
  MeetsLackingTex => pc # "undefined" /\ step < LowerIoAt

\* the positions of the output stores of an instruction list, in order
StorePositions(instrs) ==
  {i \in 1..Len(instrs) : instrs[i].type = "intrinsic" /\ instrs[i].op = "store_output"}
RECURSIVE SortedSeq(_)
SortedSeq(S) == IF S = {} THEN <<>> ELSE <<SetMin(S)>> \o SortedSeq(S \ {SetMin(S)})
Stores(instrs) ==
  LET at == SortedSeq(StorePositions(instrs))
  IN [k \in 1..Len(at) |-> instrs[at[k]]]

LowerIoReturned == pc \notin {"abort", "undefined"} /\ step >= LowerIoAt
\* the store writes the variable bound to the primary color output location
TargetsColor(store) ==
  \E i \in 1..Len(nir.outputs) :
    /\ nir.outputs[i].location \in ColorResults
    /\ nir.outputs[i].driver_location = store.base
\* the instruction of c->nir that defines the value the store writes
StoredDef(store) ==
  {i \in 1..Len(c_nir.instrs) : c_nir.instrs[i].def = store.src[1].ssa}
\* the store writes a copy whose swizzle has indices 0 and 2 exchanged and
\* indices 1 and 3 as a plain copy has them
StoresSwapped(store) ==
  \E i \in StoredDef(store) :
    /\ c_nir.instrs[i].op = "mov"
    /\ c_nir.instrs[i].src[1].swizzle[1] = 2
    /\ c_nir.instrs[i].src[1].swizzle[3] = 0
    /\ c_nir.instrs[i].src[1].swizzle[2] <= 1
    /\ c_nir.instrs[i].src[1].swizzle[4] <= 3
\* the store writes its value as it is
StoresPlain(store) == \A i \in StoredDef(store) : c_nir.instrs[i].op # "mov"

\* C17: with the color-space-swap specialization in the fragment stage,
\* etna_lower_io exchanges swizzle indices 0 and 2 of the stored value for
\* exactly the output stores that target the variable bound to the primary
\* color output location; every other store (depth, also without a declared
\* color output), and every store in the vertex stage or without the
\* specialization, is left unchanged.
C17_SwapsOnlyColorStores ==
  LowerIoReturned =>
    /\ Len(Stores(c_nir.instrs)) = Len(Stores(nir.instrs))
    /\ \A k \in 1..Len(Stores(nir.instrs)) :
         LET old == Stores(nir.instrs)[k]
             new == Stores(c_nir.instrs)[k]
         IN /\ new.base = old.base
            /\ IF stage = "FS" /\ key.frag_rb_swap /\ TargetsColor(old)
               THEN StoresSwapped(new)
               ELSE StoresPlain(new)

(***************************************************************************)
(* etna_link_shader_nir for every link info the caller can hand in and     *)
(* for fragment variants that fill the input file.                         *)
(***************************************************************************)
\* the link info as an earlier successful link of n inputs left it
UsedLinkInfo(n) ==
  [num_varyings |-> n,
   varyings |-> [i \in 0..(ETNA_NUM_INPUTS - 1) |->
                   IF i < n
                   THEN [num_components |-> 4, pa_attributes |-> 753,
                         use |-> <<"UNUSED", "UNUSED", "UNUSED", "UNUSED">>,
                         reg |-> 9 + i]
                   ELSE ZeroVarying],
   pcoord_varying_comp_ofs |-> 0 - 1]
LinkInfos == {ZeroLinkInfo, UsedLinkInfo(1), UsedLinkInfo(3)}

\* sixteen slots, for the variants that fill the files
FullSlots ==
  << "VARYING_SLOT_VAR0", "VARYING_SLOT_VAR1", "VARYING_SLOT_VAR2",
     "VARYING_SLOT_VAR3", "VARYING_SLOT_VAR4", "VARYING_SLOT_VAR5",
     "VARYING_SLOT_VAR6", "VARYING_SLOT_VAR7", "VARYING_SLOT_VAR8",
     "VARYING_SLOT_VAR9", "VARYING_SLOT_VAR10", "VARYING_SLOT_VAR11",
     "VARYING_SLOT_VAR12", "VARYING_SLOT_VAR13", "VARYING_SLOT_VAR14",
     "VARYING_SLOT_VAR15" >>
FullVsShader ==
  [outs |-> VarList(FullSlots), regs |-> [i \in 1..ETNA_NUM_INPUTS |-> i]]
FullFsInputLists ==
  { VarList(SubSeq(FullSlots, 1, n)) : n \in (ETNA_NUM_INPUTS - 1)..ETNA_NUM_INPUTS }

InitLinkAny ==
  /\ ndebug \in BOOLEAN
  /\ pc = "link"
  /\ ret = "none"
  /\ \/ /\ \E sh \in VsShaders : vs = [outfile |-> VsOutfile(sh)]
        /\ \E ins \in FsInputLists : fs = [infile |-> FsInfile(ins)]
     \/ /\ vs = [outfile |-> VsOutfile(FullVsShader)]
        /\ \E ins \in FullFsInputLists : fs = [infile |-> FsInfile(ins)]
  /\ info \in LinkInfos
  /\ idx = 0
  /\ comp_ofs = 0
  /\ CompileIdle
  /\ OptIdle
  /\ FrontIdle
  /\ FnIdle

SpecLinkAny == InitLinkAny /\ [][NextLink]_vars

\* C18: after a successful link the varying entry of every point-coordinate
\* fragment input carries no vertex-output register (the absent value 0),
\* whatever the vertex variant exports and whatever the link info held
\* before the call.
C18_PointCoordRegAbsent ==
  LinkSucceeded =>
    \A i \in 1..fs.infile.num_reg :
      FsIn(i).slot = VARYING_SLOT_PNTC =>
        info.varyings[FsIn(i).reg - 1].reg = ZeroVarying.reg

\* C19: etna_link_shader_nir accepts every fragment variant whose input
\* count is at most ETNA_NUM_INPUTS, the count equal to the maximum included:
\* its input-count assertion stops the call only for counts above it.
C19_AcceptsUpToMax ==
  [][(pc = "link" /\ fs.infile.num_reg <= ETNA_NUM_INPUTS) => pc' # "abort"]_vars

(***************************************************************************)
(* etna_emit_alu as a function of its arguments: every opcode, operand     *)
(* triples with distinct registers and swizzles, destinations with         *)
(* different write masks, and a code buffer holding inst_ptr instructions. *)
(***************************************************************************)
AluSrcs(r) == {SrcReg(r, INST_SWIZ_IDENTITY), SrcReg(r, INST_SWIZ(2, 1, 0, 3))}
AluSrcTriples ==
  {<<a, b, d>> : a \in AluSrcs(1), b \in AluSrcs(2), d \in AluSrcs(3)}
AluDsts == {DstReg(0, m) : m \in {1, 2, 12, 15}}
CodeBefore(ip) == [i \in 1..ip |-> ZeroInst]

InitAlu ==
  /\ ndebug \in BOOLEAN
  /\ pc = "alu"
  /\ ret = "none"
  /\ arg \in [op : NirOps, dst : AluDsts, src : AluSrcTriples,
              saturate : BOOLEAN, specs : HwSpecs, inst_ptr : 0..(MaxInsts - 1)]
  /\ res = <<>>
  /\ CompileIdle
  /\ LinkIdle
  /\ OptIdle
  /\ FrontIdle

\* assert(ei.opcode != 0xff); build the instruction; emit_inst(c, &inst)
EtnaEmitAlu ==
  /\ pc = "alu"
  /\ IF etna_ops(arg.op).opcode = OPCODE_SENTINEL /\ ~ndebug
     THEN /\ pc' = "abort"
          /\ res' = res
     ELSE LET inst == alu_inst(arg.specs, arg.op, arg.dst, arg.src, arg.saturate)
          IN /\ res' = [code |-> emit_inst_code(CodeBefore(arg.inst_ptr),
                                                arg.inst_ptr, inst),
                        inst_ptr |-> emit_inst_ptr(arg.inst_ptr)]
             /\ pc' = "done"
  /\ UNCHANGED <<ndebug, ret, arg, compileVars, linkVars, optVars, frontVars>>

NextAlu == EtnaEmitAlu

SpecAlu == InitAlu /\ [][NextAlu]_vars

AluReturned == pc = "done" /\ res # <<>> /\ arg.op \in DescribedOps
AluAppended == res.code[res.inst_ptr]
C20_Field(j) == (etna_ops(arg.op).src \div (2 ^ (2 * j))) % 4
C20_LowestLane == SetMin({l \in 0..3 : (arg.dst.write_mask \div (2 ^ l)) % 2 = 1})
\* operand 0 as a single-lane unit reads it: every lane takes the source
\* lane that the lowest written destination lane selects
C20_OneLane(src) ==
  [src EXCEPT !.swiz = INST_SWIZ_BROADCAST(SwizLane(src.swiz, C20_LowestLane))]
C20_Header ==
  /\ res.inst_ptr = arg.inst_ptr + 1
  /\ Len(res.code) = arg.inst_ptr + 1
  /\ \A i \in 1..arg.inst_ptr : res.code[i] = CodeBefore(arg.inst_ptr)[i]
  /\ AluAppended.opcode = etna_ops(arg.op).opcode
  /\ AluAppended.type = etna_ops(arg.op).type
  /\ AluAppended.cond = etna_ops(arg.op).cond
  /\ AluAppended.dst = arg.dst
  /\ AluAppended.sat = arg.saturate

\* C20 as stated: for every opcode with a valid descriptor and every operand
\* triple, etna_emit_alu appends exactly one instruction with the
\* descriptor's opcode, type and condition, the given destination and
\* saturate flag, and physical slot j holds logical operand
\* f = (pattern >> 2j) & 3 when f < 3 and is zero when f = 3.
C20_SlotsHoldOperands ==
  AluReturned =>
    /\ C20_Header
    /\ \A j \in 0..2 :
         AluAppended.src[j + 1] =
           IF C20_Field(j) < 3 THEN arg.src[C20_Field(j) + 1] ELSE ZeroSrc

\* C20 amended: the same, except that for the single-lane opcodes (frsq,
\* frcp, fexp2, fsqrt, fdiv, flog2, fsin, fcos, i2f32, f2u32) a slot that
\* takes logical operand 0 holds it with its swizzle forced to the broadcast
\* of the lane selected by the lowest set bit of the destination write mask.
C20_SlotsHoldOperandsOneLane ==
  AluReturned =>
    /\ C20_Header
    /\ \A j \in 0..2 :
         AluAppended.src[j + 1] =
           IF C20_Field(j) = 3 THEN ZeroSrc
           ELSE IF C20_Field(j) = 0 /\ arg.op \in SingleLaneOps
                THEN C20_OneLane(arg.src[1])
                ELSE arg.src[C20_Field(j) + 1]

C20_Witness ==
  /\ AluReturned
  /\ arg.op = "frcp"
  /\ arg.dst.write_mask = 12
  /\ arg.src[1].swiz = INST_SWIZ(2, 1, 0, 3)
  /\ AluAppended.src[3] = SrcReg(1, INST_SWIZ_BROADCAST(0))
  /\ AluAppended.src[1] = ZeroSrc


C21_OneLaneOps ==
  {"frcp", "frsq", "fexp2", "fsqrt", "fdiv", "flog2", "fsin", "fcos", "i2f32", "f2u32"}
C21_Lanes(swiz) == [l \in 0..3 |-> SwizLane(swiz, l)]

\* C21: for the single-lane ops and a non-empty destination write mask, all
\* four swizzle lanes of logical operand 0 in the emitted instruction equal
\* lane k of the incoming swizzle, k the lowest set bit of the write mask;
\* the swizzles of operands 1 and 2, and every operand swizzle of every
\* other op, pass through unchanged.
C21_SingleLaneBroadcast ==
  (AluReturned /\ arg.dst.write_mask # 0) =>
    \A j \in 0..2 :
      C20_Field(j) < 3 =>
        C21_Lanes(AluAppended.src[j + 1].swiz) =
          IF C20_Field(j) = 0 /\ arg.op \in C21_OneLaneOps
          THEN [l \in 0..3 |-> SwizLane(arg.src[1].swiz, C20_LowestLane)]
          ELSE C21_Lanes(arg.src[C20_Field(j) + 1].swiz)

C21_Witness ==
  /\ AluReturned
  /\ arg.op = "fdiv"
  /\ arg.dst.write_mask = 12
  /\ arg.src[1].swiz = INST_SWIZ(2, 1, 0, 3)
  /\ arg.src[2].swiz = INST_SWIZ(2, 1, 0, 3)
  /\ AluAppended.src[1].swiz = INST_SWIZ_BROADCAST(0)
  /\ AluAppended.src[2].swiz = INST_SWIZ(2, 1, 0, 3)


(***************************************************************************)
(* etna_emit_jump and etna_emit_discard as functions of their arguments.   *)
(***************************************************************************)
BranchConditions ==
  {SRC_DISABLE, [use |-> FALSE, reg |-> 3, swiz |-> INST_SWIZ(2, 1, 0, 3)],
   SrcReg(1, INST_SWIZ_IDENTITY), SrcReg(2, INST_SWIZ(2, 1, 0, 3)),
   SrcReg(1, INST_SWIZ(1, 1, 1, 1)), SrcReg(3, INST_SWIZ(3, 0, 1, 2))}

InitBranch ==
  /\ ndebug \in BOOLEAN
  /\ pc \in {"jump", "discard"}
  /\ ret = "none"
  /\ arg \in [block : 0..MaxBlocks, condition : BranchConditions,
              inst_ptr : 0..(MaxInsts - 1)]
  /\ res = <<>>
  /\ CompileIdle
  /\ LinkIdle
  /\ OptIdle
  /\ FrontIdle

EtnaEmitJump ==
  /\ pc = "jump"
  /\ res' = [code |-> emit_inst_code(CodeBefore(arg.inst_ptr), arg.inst_ptr,
                                     jump_inst(arg.block, arg.condition)),
             inst_ptr |-> emit_inst_ptr(arg.inst_ptr)]
  /\ pc' = "jumped"
  /\ UNCHANGED <<ndebug, ret, arg, compileVars, linkVars, optVars, frontVars>>

EtnaEmitDiscard ==
  /\ pc = "discard"
  /\ res' = [code |-> emit_inst_code(CodeBefore(arg.inst_ptr), arg.inst_ptr,
                                     discard_inst(arg.condition)),
             inst_ptr |-> emit_inst_ptr(arg.inst_ptr)]
  /\ pc' = "discarded"
  /\ UNCHANGED <<ndebug, ret, arg, compileVars, linkVars, optVars, frontVars>>

NextBranch == EtnaEmitJump \/ EtnaEmitDiscard

SpecBranch == InitBranch /\ [][NextBranch]_vars

C22_Appended == res.code[res.inst_ptr]
C22_OneAppended ==
  /\ res.inst_ptr = arg.inst_ptr + 1
  /\ Len(res.code) = arg.inst_ptr + 1
  /\ \A i \in 1..arg.inst_ptr : res.code[i] = ZeroInst
C22_NoSource == C22_Appended.src = <<ZeroSrc, ZeroSrc, ZeroSrc>>
\* the condition in src[0], every lane reading lane 0 of the condition's swizzle
C22_ConditionSource ==
  /\ C22_Appended.src[1].use
  /\ C22_Appended.src[1].reg = arg.condition.reg
  /\ \A l \in 0..3 :
       SwizLane(C22_Appended.src[1].swiz, l) = SwizLane(arg.condition.swiz, 0)
  /\ C22_Appended.src[2] = ZeroSrc
  /\ C22_Appended.src[3] = ZeroSrc
C22_Jump ==
  pc = "jumped" =>
    /\ C22_OneAppended
    /\ C22_Appended.opcode = "BRANCH"
    /\ C22_Appended.imm = arg.block
    /\ IF arg.condition.use
       THEN /\ C22_Appended.cond = "NOT"
            /\ C22_Appended.type = "U32"
            /\ C22_ConditionSource
       ELSE /\ C22_Appended.cond = ZeroInst.cond
            /\ C22_NoSource

\* C22 as stated: etna_emit_jump appends exactly one BRANCH whose immediate
\* is the target block id, without condition and source when the condition
\* operand is unused, and with condition NOT, type U32 and the condition in
\* src[0] broadcast from lane 0 of its swizzle when it is used;
\* etna_emit_discard does the same with opcode TEXKILL and no immediate.
C22_JumpAndDiscardAlike ==
  /\ C22_Jump
  /\ pc = "discarded" =>
       /\ C22_OneAppended
       /\ C22_Appended.opcode = "TEXKILL"
       /\ C22_Appended.imm = 0
       /\ IF arg.condition.use
          THEN /\ C22_Appended.cond = "NOT"
               /\ C22_Appended.type = "U32"
               /\ C22_ConditionSource
          ELSE /\ C22_Appended.cond = ZeroInst.cond
               /\ C22_NoSource

\* C22 amended: the same for etna_emit_jump; etna_emit_discard appends
\* exactly one TEXKILL without immediate, without condition and source when
\* the condition operand is unused, and with condition GZ, the default type
\* and the condition in src[0] broadcast from lane 0 when it is used.
C22_JumpAndDiscard ==
  /\ C22_Jump
  /\ pc = "discarded" =>
       /\ C22_OneAppended
       /\ C22_Appended.opcode = "TEXKILL"
       /\ C22_Appended.imm = 0
       /\ IF arg.condition.use
          THEN /\ C22_Appended.cond = "GZ"
               /\ C22_Appended.type = ZeroInst.type
               /\ C22_ConditionSource
          ELSE /\ C22_Appended.cond = ZeroInst.cond
               /\ C22_NoSource

C22_Witness ==
  /\ pc = "jumped"
  /\ arg.block = MaxBlocks
  /\ arg.condition = SrcReg(2, INST_SWIZ(2, 1, 0, 3))
  /\ C22_Appended.src[1] = SrcReg(2, INST_SWIZ_BROADCAST(2))


(***************************************************************************)
(* A compile whose emitter writes outputs from several registers, between  *)
(* block starts and ALU instructions.                                      *)
(***************************************************************************)
OutputWriteRegs == {0, 1, 2}

NextOut ==
  \/ EmitBlockStart
  \/ EmitAlu("fadd", DstReg(1, 15),
             <<SrcReg(1, INST_SWIZ_IDENTITY), SrcReg(2, INST_SWIZ_IDENTITY), SRC_DISABLE>>,
             FALSE)
  \/ \E index \in OutputIndices, r \in OutputWriteRegs :
       EmitOutput(index, SrcReg(r, INST_SWIZ_IDENTITY))
  \/ EmitShaderReturn
  \/ CompileNop
  \/ CompileAssemble
  \/ \E outs \in FsOutputLists : CompileFsOutputs(outs)
  \/ \E outs \in VsOutputLists : CompileVsOutputs(outs)

SpecOut == Init /\ [][NextOut]_vars

C23_SpecialRegs(var) ==
  <<var.vs_pos_out_reg, var.vs_pointsize_out_reg, var.ps_color_out_reg,
    var.ps_depth_out_reg, var.outfile>>
\* an output write: the step changes the record of writes at one index
C23_WriteFrame ==
  written' # written =>
    /\ inst_ptr' = inst_ptr
    /\ code' = code
    /\ block_ptr' = block_ptr
    /\ \E index \in DOMAIN written :
         /\ \A i \in DOMAIN written \ {index} :
              written'[i] = written[i] /\ output_reg'[i] = output_reg[i]
         /\ output_reg'[index] = written'[index]
C23_LatestWrite ==
  \A i \in DOMAIN output_reg :
    output_reg[i] = IF written[i] = Unwritten THEN 0 ELSE written[i]
C23_NotDerivedYet ==
  pc \in {"emit", "nop", "assemble", "fs_outputs", "vs_outputs"} =>
    C23_SpecialRegs(v) = C23_SpecialRegs(InitV)
C23_DerivedFromTable ==
  pc = "done" =>
    \A i \in 1..Len(outputs) :
         LET reg == output_reg[outputs[i].driver_location]
             loc == outputs[i].location
         IN /\ (stage = "FS" /\ loc \in {"FRAG_RESULT_COLOR", "FRAG_RESULT_DATA0"})
                 => v.ps_color_out_reg = reg
            /\ (stage = "FS" /\ loc = "FRAG_RESULT_DEPTH") => v.ps_depth_out_reg = reg
            /\ (stage = "VS" /\ loc = "VARYING_SLOT_POS") => v.vs_pos_out_reg = reg
            /\ (stage = "VS" /\ loc = "VARYING_SLOT_PSIZ") => v.vs_pointsize_out_reg = reg
            /\ (stage = "VS" /\ loc \notin {"VARYING_SLOT_POS", "VARYING_SLOT_PSIZ"})
                 => \E k \in 1..Len(v.outfile) :
                      v.outfile[k].slot = loc /\ v.outfile[k].reg = reg

\* C23: etna_emit_output appends no instruction; it leaves the write cursor,
\* the instruction buffer, block_ptr and every other output_reg entry as they
\* were and sets output_reg[index] to the operand's register; after any
\* emission sequence output_reg[i] is the register of the latest output
\* write to index i; the variant's special and output registers are derived
\* from this table only once emission has completed.
C23_OutputTable ==
  /\ [][C23_WriteFrame]_vars
  /\ [][output_reg' # output_reg => written' # written]_vars
  /\ []C23_LatestWrite
  /\ []C23_NotDerivedYet
  /\ []C23_DerivedFromTable

C23_Witness ==
  /\ pc = "done"
  /\ stage = "VS"
  /\ inst_ptr = MaxInsts
  /\ written[0] = 2
  /\ written[1] = 0
  /\ v.vs_pos_out_reg = 2
  /\ Len(v.outfile) = 1
  /\ v.outfile[1].reg = 0


C24_Listed ==
  << "nir_lower_vars_to_ssa", "nir_opt_copy_prop_vars", "nir_copy_prop",
     "nir_opt_dce", "nir_opt_cse", "nir_opt_peephole_select", "nir_opt_intrinsics",
     "nir_opt_algebraic", "nir_opt_constant_folding", "nir_opt_dead_cf",
     "nir_opt_trivial_continues", "nir_opt_loop_unroll", "nir_opt_if",
     "nir_opt_remove_phis", "nir_opt_undef" >>
C24_Extra == << "nir_copy_prop (cleanup)", "nir_opt_dce (cleanup)" >>
C24_TcReported == "nir_opt_trivial_continues" \in reported
\* the calls of one sweep, given what trivial-continue removal reported
C24_Sweep(tc) ==
  IF tc THEN SubSeq(C24_Listed, 1, 11) \o C24_Extra \o SubSeq(C24_Listed, 12, 15)
  ELSE C24_Listed
C24_InOrder ==
  /\ Len(invoked) <= Len(C24_Sweep(C24_TcReported))
  /\ invoked = SubSeq(C24_Sweep(C24_TcReported), 1, Len(invoked))
  /\ pc = "opt_while" => invoked = C24_Sweep(C24_TcReported)

\* C24: within one sweep of etna_optimize_loop the passes run in the listed
\* order; the extra copy-propagation and dead-code passes run right after
\* trivial-continue removal and before loop unrolling exactly when
\* trivial-continue removal reported progress in that sweep, and then
\* another sweep follows whatever the two extra passes report.
C24_SweepOrder ==
  /\ []C24_InOrder
  /\ [][(pc = "opt_while" /\ C24_TcReported) => pc' = "opt_top"]_vars

C24_Witness ==
  /\ pc = "opt_while"
  /\ reported = {"nir_opt_trivial_continues"}
  /\ Len(invoked) = 17
  /\ invoked[12] = "nir_copy_prop (cleanup)"
  /\ progress


C25_Ops == {"fdiv", "flog2", "fsin", "fcos"}
\* the sources of the listed instructions that read the value d
C25_Uses(instrs, d) ==
  {<<m, j>> \in (1..Len(instrs)) \X (1..VecWidth) :
     /\ instrs[m].type # "load_const"
     /\ j <= Len(instrs[m].src)
     /\ instrs[m].src[j].ssa = d}
C25_LowerAluReturns ==
  /\ pc = "front"
  /\ step < Len(FrontEnd)
  /\ FrontEnd[step + 1] = "etna_lower_alu"
  /\ step' = step + 1
C25_TrailingMul(mul, op) ==
  /\ IsAlu(mul)
  /\ mul.op = "fmul"
  /\ mul.num_components = 1
  /\ mul.saturate = op.saturate
  /\ Len(mul.src) = 2
  /\ mul.src[1].ssa = op.def /\ mul.src[1].swizzle[1] = 0
  /\ mul.src[2].ssa = op.def /\ mul.src[2].swizzle[1] = 1
C25_Lowered(P, Q, i) ==
  \E k \in 1..Len(Q) :
    /\ IsAlu(Q[k]) /\ Q[k].op = P[i].op /\ Q[k].def = P[i].def
    /\ IF specs.has_new_transcendentals
       THEN /\ Q[k].num_components = 2
            /\ ~Q[k].saturate
            /\ k < Len(Q)
            /\ C25_TrailingMul(Q[k + 1], P[i])
            /\ C25_Uses(Q, P[i].def) = {<<k + 1, 1>>, <<k + 1, 2>>}
            /\ Cardinality(C25_Uses(Q, Q[k + 1].def)) =
                 Cardinality(C25_Uses(P, P[i].def))
       ELSE /\ Q[k].num_components = 1
            /\ Q[k].saturate = P[i].saturate

\* C25: on targets with the improved transcendental unit, after
\* etna_lower_alu every fdiv, flog2, fsin and fcos has a 2-component result
\* and no saturate flag, and is immediately followed by a 1-component fmul
\* that reads components 0 and 1 of that result and carries the op's
\* original saturate flag; every other former use of the result reads the
\* fmul.  On the other targets these ops keep 1 component and their flag.
C25_Transcendentals ==
  [][C25_LowerAluReturns =>
       \A i \in 1..Len(c_nir.instrs) :
         (IsAlu(c_nir.instrs[i]) /\ c_nir.instrs[i].op \in C25_Ops)
           => C25_Lowered(c_nir.instrs, c_nir'.instrs, i)]_vars

C25_Witness ==
  /\ pc = "front"
  /\ step = Len(FrontEnd)
  /\ specs.has_new_transcendentals
  /\ \E k \in 1..(Len(c_nir.instrs) - 2) :
       /\ c_nir.instrs[k].op = "fsin"
       /\ c_nir.instrs[k].num_components = 2
       /\ c_nir.instrs[k + 1].op = "fmul"
       /\ c_nir.instrs[k + 1].saturate
       /\ c_nir.instrs[k + 2].op = "store_output"
       /\ c_nir.instrs[k + 2].src[1].ssa = c_nir.instrs[k + 1].def


TexSrcsOfType(tex, types) == {j \in 1..Len(tex.src) : tex.src[j].src_type \in types}
\* etna_lower_io returns: the step of the compile that runs it to its end
LowerIoReturns ==
  /\ pc = "front"
  /\ step < Len(FrontEnd)
  /\ FrontEnd[step + 1] = "etna_lower_io"
  /\ step' = step + 1
\* a texture op with a coordinate of fewer than 4 components and one
\* bias/lod source, and no source of another kind
C26_Packable(tex) ==
  /\ tex.type = "tex"
  /\ tex.coord_components < 4
  /\ Cardinality(TexSrcsOfType(tex, {"coord"})) = 1
  /\ Cardinality(TexSrcsOfType(tex, {"bias", "lod"})) = 1
  /\ Len(tex.src) = 2
C26_IsPackedVector(vec, tex) ==
  LET k == tex.coord_components
      lb == tex.src[CHOOSE j \in TexSrcsOfType(tex, {"bias", "lod"}) : TRUE].ssa
  IN /\ IsAlu(vec) /\ vec.num_components = 4 /\ Len(vec.src) = 4
     /\ \A i \in 1..4 :
          IF i <= k
          THEN vec.src[i].ssa = vec.src[1].ssa /\ vec.src[i].swizzle[1] = i - 1
          ELSE vec.src[i].ssa = lb /\ vec.src[i].swizzle[1] = 0
     /\ tex.sampler_dim # "RECT" =>
          vec.src[1].ssa = tex.src[CHOOSE j \in TexSrcsOfType(tex, {"coord"}) : TRUE].ssa
C26_Packed(Q, tex, new) ==
  /\ Len(new.src) = Len(tex.src) - 1
  /\ TexSrcsOfType(new, {"bias", "lod"}) = {}
  /\ new.coord_components = 4
  /\ \E j \in TexSrcsOfType(new, {"coord"}) :
       \E m \in 1..Len(Q) :
         Q[m].def = new.src[j].ssa /\ C26_IsPackedVector(Q[m], tex)
C26_After(P, Q, i) ==
  \E k \in 1..Len(Q) :
    /\ Q[k].type = "tex" /\ Q[k].def = P[i].def
    /\ IF specs.halti < 5 /\ TexSrcsOfType(P[i], {"bias", "lod"}) # {}
       THEN C26_Packable(P[i]) => C26_Packed(Q, P[i], Q[k])
       ELSE P[i].sampler_dim # "RECT" => Q[k].src = P[i].src

\* C26: on a target below tier 5, a texture op with a bias/lod source and a
\* coordinate of k < 4 components has, after etna_lower_io, one 4-component
\* coordinate operand whose lanes 0..k-1 are the coordinate's components
\* 0..k-1 and whose lanes k..3 are the bias/lod scalar, one source fewer
\* (the bias/lod source is gone) and coordinate component count 4; texture
\* ops without bias/lod source, and all texture ops on tier 5 or above,
\* keep their sources.
C26_TexturePacking ==
  [][LowerIoReturns =>
       \A i \in 1..Len(c_nir.instrs) :
         c_nir.instrs[i].type = "tex" => C26_After(c_nir.instrs, c_nir'.instrs, i)]_vars


\* C27: after the fix-up loop the immediate of every BRANCH is an index into
\* the final instruction stream, 0 <= immediate < instruction count, for
\* every emission sequence, branches to a block that emitted no instruction
\* (such as an empty last block) included.
C27_BranchTargetsInStream ==
  Assembled =>
    \A i \in 1..inst_ptr :
      code[i].opcode = INST_OPCODE_BRANCH =>
        0 <= code[i].imm /\ code[i].imm < inst_ptr


\* the values the listed instructions define
C28_Defs(instrs) == {instrs[m].def : m \in 1..Len(instrs)}
C28_SameForBothOrders(P, Q, i) ==
  \E k \in 1..Len(Q) :
    /\ Q[k].type = "tex" /\ Q[k].def = P[i].def
    /\ Len(Q[k].src) = 1
    /\ Q[k].src[1].src_type = "coord"
    /\ Q[k].src[1].ssa \notin C28_Defs(P)
    /\ \E m \in 1..Len(Q) :
         Q[m].def = Q[k].src[1].ssa /\ IsAlu(Q[m]) /\ Q[m].op = "vec4"

\* C28: the texture-operand packing of etna_lower_io does not depend on the
\* order of the op's sources: with the bias/lod source before or after the
\* coordinate source, the source removed is the bias/lod one and the source
\* that reads the new 4-component vector is the coordinate one.
C28_PackingAnyOrder ==
  [][(LowerIoReturns /\ specs.halti < 5) =>
       \A i \in 1..Len(c_nir.instrs) :
         C26_Packable(c_nir.instrs[i])
           => C28_SameForBothOrders(c_nir.instrs, c_nir'.instrs, i)]_vars


(***************************************************************************)
(* The emitter near the end of the context's instruction buffer:           *)
(* struct etna_inst code[ETNA_MAX_INSTRUCTIONS * ETNA_INST_SIZE], written   *)
(* by emit_inst without a check of the cursor.                             *)
(***************************************************************************)
ETNA_MAX_INSTRUCTIONS == 2048
ETNA_INST_SIZE == 4
CodeCapacity == ETNA_MAX_INSTRUCTIONS * ETNA_INST_SIZE

FillInst ==
  alu_inst(CHOOSE sp \in HwSpecs : ~sp.has_new_transcendentals, "fadd", DstReg(1, 15),
           <<SrcReg(1, INST_SWIZ_IDENTITY), SrcReg(2, INST_SWIZ_IDENTITY), SRC_DISABLE>>,
           FALSE)

\* block 0 has been started and has emitted `inst_ptr` instructions
InitCursor ==
  /\ ndebug \in BOOLEAN
  /\ pc = "emit"
  /\ stage \in {"VS", "FS"}
  /\ specs \in HwSpecs
  /\ num_blocks = 1
  /\ block_ptr = [b \in {0} |-> 0]
  /\ inst_ptr \in {0, CodeCapacity - 1}
  /\ code = [i \in 1..inst_ptr |-> FillInst]
  /\ output_reg = [i \in 0..(ETNA_NUM_INPUTS - 1) |-> 0]
  /\ written = [i \in 0..(ETNA_NUM_INPUTS - 1) |-> Unwritten]
  /\ error = FALSE
  /\ cur = 1
  /\ owner = [i \in 1..inst_ptr |-> 0]
  /\ sym = code
  /\ outputs = <<>>
  /\ v = InitV
  /\ ret = "none"
  /\ LinkIdle
  /\ OptIdle
  /\ FrontIdle
  /\ FnIdle

\* the streams followed: short ones, and ones that reach the end of code[]
CursorFollowed ==
  /\ pc = "emit"
  /\ inst_ptr < MaxInsts + 1 \/ inst_ptr >= CodeCapacity - 1

\* emit_inst: c->code[c->inst_ptr++] = *inst.  With the cursor at the end
\* of the array the store is outside it.
EmitInst(inst) ==
  /\ CursorFollowed
  /\ inst_ptr' = emit_inst_ptr(inst_ptr)
  /\ sym' = Append(sym, inst)
  /\ IF inst_ptr < CodeCapacity
     THEN /\ code' = emit_inst_code(code, inst_ptr, inst)
          /\ owner' = Append(owner, cur - 1)
          /\ pc' = pc
     ELSE /\ pc' = "undefined"
          /\ UNCHANGED <<code, owner>>
  /\ UNCHANGED <<ndebug, stage, specs, num_blocks, block_ptr, output_reg, written, error,
                 cur, outputs, v, ret, linkVars, optVars, frontVars, fnVars>>

CursorAlu == EmitInst(FillInst)
CursorTex ==
  EmitInst(tex_inst(specs, stage, "tex", 0, INST_SWIZ_IDENTITY, DstReg(1, 15),
                    SrcReg(1, INST_SWIZ_IDENTITY), SRC_DISABLE))
CursorJump == EmitInst(jump_inst(0, SRC_DISABLE))
CursorDiscard == EmitInst(discard_inst(SRC_DISABLE))
CursorLoadUbo ==
  EmitInst(load_ubo_inst(DstReg(1, 15), SrcReg(1, INST_SWIZ_IDENTITY),
                         SrcReg(2, INST_SWIZ_IDENTITY)))

NextCursor == CursorAlu \/ CursorTex \/ CursorJump \/ CursorDiscard \/ CursorLoadUbo

SpecCursor == InitCursor /\ [][NextCursor]_vars

\* C29: in every reachable state of a compile the write cursor inst_ptr is
\* the number of instructions appended so far (ALU, texture, jump, discard
\* and uniform-buffer-load emission each advance it by one) and is at most
\* the capacity of the instruction buffer, ETNA_MAX_INSTRUCTIONS *
\* ETNA_INST_SIZE entries, however long the emitted stream.
C29_CursorWithinBuffer ==
  /\ inst_ptr = Len(sym)
  /\ inst_ptr <= CodeCapacity
  /\ pc # "undefined"


C30_Positive(sp) ==
  /\ sp.vertex_output_buffer_size > 0
  /\ sp.vertex_cache_size > 0
  /\ sp.shader_core_count > 0
C30_half == arg.num_reg \div 2 + 1

\* C30: the load-balancing computation never divides by zero: for every
\* output count N from 0 to the maximum and every hardware record with
\* positive vertex-output-buffer size, vertex-cache size and core count,
\* half = N/2 + 1 is at least 1 and both divisors, vob - 2*half*vcs in
\* unsigned 32-bit arithmetic and cores*half, are nonzero.  (For values
\* below 2^31 the unsigned difference is zero exactly when vob equals
\* 2*half*vcs.)
C30_NoDivisionByZero ==
  (arg.num_reg \in 0..ETNA_NUM_INPUTS /\ C30_Positive(arg.specs)) =>
    /\ C30_half >= 1
    /\ arg.specs.vertex_output_buffer_size
         # 2 * C30_half * arg.specs.vertex_cache_size
    /\ arg.specs.shader_core_count * C30_half # 0
    /\ pc # "undefined"

=============================================================================
